---- MODULE Spec2Model ----
(***************************************************************************)
(* Model of solang-aqd: the instruction data encoder                       *)
(* (construct_instruction_data), the account reference resolver            *)
(* (construct_instruction_accounts) and the return data decoder            *)
(* (decode_instruction_return_data) and SolanaTransactionBuilder::done of  *)
(* crates/aqd-solana-contracts, check_target_match and                     *)
(* prompt_confirm_transaction of crates/aqd-utils, and the call and        *)
(* instantiate commands of crates/aqd-polkadot.                            *)
(***************************************************************************)
EXTENDS Integers, Sequences, FiniteSets, TLC

VARIABLES
    instr,          \* the IdlInstruction handed to the function
    raw_args,       \* the raw strings handed to the function
    fs,             \* the file system: path -> file content
    pc,             \* position of the running function
    i,              \* loop index (0-based, as enumerate())
    accounts,       \* local Vec<AccountMeta>
    signers,        \* local Vec<Keypair>
    new_accounts,   \* local Vec<(Pubkey, String)>
    generated,      \* number of Keypair::new() calls made so far
    data,           \* local Vec<u8> of construct_instruction_data
    args,           \* local Vec<BorshToken> of construct_instruction_data
    result,         \* what the caller receives
    rpc_client,     \* the RPC node: what it answers, and the requests made
    response,       \* local String of decode_instruction_return_data
    target_name,    \* target the command is run for (check_target_match)
    config_file_content,  \* Option<String> handed to check_target_match
    opts,           \* the options of SolanaTransactionBuilder
    steps,          \* the steps of done that were entered, in order
    command,        \* the Polkadot command: kind, execute, skip_confirm
    stdin,          \* what read_line finds on the standard input
    stdout,         \* what the command has printed
    chain           \* the node: dry runs answered, extrinsics received

vars == <<instr, raw_args, fs, pc, i, accounts, signers, new_accounts,
          generated, data, args, result, rpc_client, response, target_name,
          config_file_content, opts, steps, command, stdin, stdout, chain>>

(***************************************************************************)
(* Bounds of the model.                                                    *)
(***************************************************************************)
MaxAccounts == 2      \* declared account descriptors per instruction
MaxArgs == 2          \* declared arguments per instruction

None == [tag |-> "None"]
Some(v) == [tag |-> "Some", v |-> v]

Ok(v) == [tag |-> "Ok", v |-> v]
Err(kind, about) == [tag |-> "Err", kind |-> kind, about |-> about]
Panic == [tag |-> "Panic"]
Running == [tag |-> "Running"]

(***************************************************************************)
(* Keys.  A Keypair is its secret; pubkey() derives the public key from    *)
(* it.  A Pubkey is written as its base58 string.                          *)
(***************************************************************************)
Keypair(secret) == [secret |-> secret]
pubkey(keypair) == "Pk" \o keypair.secret

system_program_id == "11111111111111111111111111111111"

\* The base58 strings Pubkey::from_str accepts.
Base58Keys == {"PkA", "PkB", system_program_id}

Pubkey_from_str(s) == IF s \in Base58Keys THEN Ok(s) ELSE Err("ParsePubkeyError", s)

\* Keypair::new(): the k-th call returns one of two keys no earlier call returned.
Keypair_new(k) == {Keypair("n" \o ToString(k) \o "a"), Keypair("n" \o ToString(k) \o "b")}

(***************************************************************************)
(* The file system.                                                        *)
(***************************************************************************)
KeypairFile(keypair) == [type |-> "keypair", keypair |-> keypair]
TextFile(text) == [type |-> "text", text |-> text]

read_keypair_file(files, path) ==
    IF path \in DOMAIN files /\ files[path].type = "keypair"
    THEN Ok(files[path].keypair)
    ELSE Err("FileError", path)

write_keypair_file(files, keypair, path) ==
    [p \in DOMAIN files \cup {path} |-> IF p = path THEN KeypairFile(keypair) ELSE files[p]]

\* The files present when the command starts.  Three keypair files are named
\* as the keywords are, and one text file has a name that is JSON itself.
InitialFiles ==
    [p \in {"id.json", "wallet.json", "PkB", "notes.txt", "p.json", "new", "self", "system",
             "{\"x\":1}"} |->
        CASE p = "id.json" -> KeypairFile(Keypair("self"))
          [] p = "{\"x\":1}" ->
               TextFile(<<"{", "\"", "n", "a", "m", "e", "\"", ":", "\"", "B", "o", "\"", ",",
                             "\"", "a", "g", "e", "\"", ":", "3", "1", ",", "\"", "f", "a", "v",
                             "o", "r", "i", "t", "e", "C", "o", "l", "o", "r", "\"", ":", "\"",
                             "B", "l", "u", "e", "\"", "}">>)
          [] p \in {"new", "self", "system"} -> KeypairFile(Keypair("decoy"))
          [] p = "wallet.json" -> KeypairFile(Keypair("wallet"))
          [] p = "PkB" -> KeypairFile(Keypair("other"))
          [] p = "notes.txt" -> TextFile(<<"h", "e", "l", "l", "o">>)
          [] p = "p.json" ->
               TextFile(<<"{", "\"", "n", "a", "m", "e", "\"", ":", "\"", "A", "l", "\"", ",",
                           "\"", "a", "g", "e", "\"", ":", "3", "0", ",", "\"", "f", "a", "v",
                           "o", "r", "i", "t", "e", "C", "o", "l", "o", "r", "\"", ":", "\"", "R",
                           "e", "d", "\"", "}">>)]

\* What Config::load(..).unwrap_or_default() can hold as keypair_path.
ConfigKeypairPaths == {"id.json", "missing.json"}

(***************************************************************************)
(* The schema: account descriptors.                                        *)
(***************************************************************************)
IdlAccount(name, is_signer, is_mut) ==
    [item |-> "IdlAccount", name |-> name, is_signer |-> is_signer, is_mut |-> is_mut]
IdlAccounts == [item |-> "IdlAccounts"]

AccountNames == <<"payer", "data", "owner", "extra">>

AccountItems(pos) ==
    {IdlAccount(AccountNames[pos], s, m) : s \in BOOLEAN, m \in BOOLEAN} \cup {IdlAccounts}

RECURSIVE AccountLists(_)
AccountLists(n) ==
    IF n = 0 THEN {<<>>}
    ELSE {Append(l, a) : l \in AccountLists(n - 1), a \in AccountItems(n)}

RawAccountStrings == {"new", "self", "system", "wallet.json", "PkA", "PkB", "zzz"}

\* A raw string supplied beyond the declared count (never read by the code).
SurplusAccountStrings == {"new", "zzz"}

RECURSIVE RawLists(_, _)
RawLists(S, n) ==
    IF n = 0 THEN {<<>>}
    ELSE {Append(l, a) : l \in RawLists(S, n - 1), a \in S}

\* Mutant: the two flags land in each other's field.
AccountMeta_flagsSwapped(pk, is_signer, is_writable) ==
    [pubkey |-> pk, is_signer |-> is_writable, is_writable |-> is_signer]

AccountMeta(pk, is_signer, is_writable) ==
    [pubkey |-> pk, is_signer |-> is_signer, is_writable |-> is_writable]

(***************************************************************************)
(* construct_instruction_accounts(instr, raw_args)                         *)
(* One action per loop iteration, split by the arm the iteration takes.    *)
(***************************************************************************)
InAccountsLoop == pc = "accounts" /\ i < Len(instr.accounts)

account == instr.accounts[i + 1]

\* raw_args.get(i)
Get(list, idx) == IF idx < Len(list) THEN Some(list[idx + 1]) ELSE None

InvalidKeyOrPath(account_name, raw_pubkey) ==
    Err("InvalidKeyOrPath", <<account_name, raw_pubkey>>)

\* Mutant: the file is named after the public key alone.
keypair_path_withoutName(account_name, pk) == pk \o ".json"

\* format!("{}-{}.json", account_name, pubkey)
keypair_path(account_name, pk) == account_name \o "-" \o pk \o ".json"

\* Mutant: a signer-flagged account without key material is let through.
PushAccount_skipsMissingKey(raw_pubkey, key_pair, pk) ==
    /\ signers' = IF account.is_signer /\ key_pair # None
                  THEN Append(signers, key_pair.v) ELSE signers
    /\ accounts' = Append(accounts, AccountMeta(pk, account.is_signer, account.is_mut))
    /\ i' = i + 1
    /\ UNCHANGED <<result, pc>>

\* Mutant: every resolved keypair is pushed as a signer.
PushAccount_signsEveryKeypair(raw_pubkey, key_pair, pk) ==
    IF account.is_signer /\ key_pair = None
    THEN /\ result' = InvalidKeyOrPath(account.name, raw_pubkey)
         /\ pc' = "returned"
         /\ UNCHANGED <<accounts, signers, i>>
    ELSE /\ signers' = IF key_pair # None THEN Append(signers, key_pair.v) ELSE signers
         /\ accounts' = Append(accounts, AccountMeta(pk, account.is_signer, account.is_mut))
         /\ i' = i + 1
         /\ UNCHANGED <<result, pc>>

\* Lines 170-181: the signer check and the push of the AccountMeta.
PushAccount(raw_pubkey, key_pair, pk) ==
    IF account.is_signer /\ key_pair = None
    THEN /\ result' = InvalidKeyOrPath(account.name, raw_pubkey)
         /\ pc' = "returned"
         /\ UNCHANGED <<accounts, signers, i>>
    ELSE /\ signers' = IF account.is_signer THEN Append(signers, key_pair.v) ELSE signers
         /\ accounts' = Append(accounts, AccountMeta(pk, account.is_signer, account.is_mut))
         /\ i' = i + 1
         /\ UNCHANGED <<result, pc>>

\* Mutant: a public key first, a keypair path second.
ResolveOther_keyFirst(files, raw_pubkey) ==
    LET pk == Pubkey_from_str(raw_pubkey)
        keypair == read_keypair_file(files, raw_pubkey)
    IN  IF pk.tag = "Ok" THEN Ok(<<None, pk.v>>)
        ELSE IF keypair.tag = "Ok" THEN Ok(<<Some(keypair.v), pubkey(keypair.v)>>)
        ELSE InvalidKeyOrPath(account.name, raw_pubkey)

\* The match arm `_`: a keypair path first, a public key second.
ResolveOther(files, raw_pubkey) ==
    LET keypair == read_keypair_file(files, raw_pubkey) IN
    IF keypair.tag = "Ok"
    THEN Ok(<<Some(keypair.v), pubkey(keypair.v)>>)
    ELSE LET pk == Pubkey_from_str(raw_pubkey) IN
         IF pk.tag = "Ok" THEN Ok(<<None, pk.v>>)
         ELSE InvalidKeyOrPath(account.name, raw_pubkey)

AccountsNested ==
    /\ InAccountsLoop
    /\ account.item = "IdlAccounts"
    /\ result' = Err("NestedAccountsUnsupported", <<>>)
    /\ pc' = "returned"
    /\ UNCHANGED <<rpc_client, response, target_name, config_file_content>>
    /\ UNCHANGED <<opts, steps, command, stdin, stdout, chain>>
    /\ UNCHANGED <<instr, raw_args, data, args, fs, i, accounts, signers, new_accounts, generated>>

AccountsMissing ==
    /\ InAccountsLoop
    /\ account.item = "IdlAccount"
    /\ Get(raw_args, i) = None
    /\ result' = Err("MissingAccount", account.name)
    /\ pc' = "returned"
    /\ UNCHANGED <<rpc_client, response, target_name, config_file_content>>
    /\ UNCHANGED <<opts, steps, command, stdin, stdout, chain>>
    /\ UNCHANGED <<instr, raw_args, data, args, fs, i, accounts, signers, new_accounts, generated>>

AccountsNew ==
    /\ InAccountsLoop
    /\ account.item = "IdlAccount"
    /\ Get(raw_args, i) = Some("new")
    /\ generated' = generated + 1
    /\ \E keypair \in Keypair_new(generated + 1), written \in BOOLEAN :
          LET pk == pubkey(keypair)
              path == keypair_path(account.name, pk)
          IN  IF written
              THEN /\ fs' = write_keypair_file(fs, keypair, path)
                   /\ new_accounts' = Append(new_accounts, <<pk, path>>)
                   /\ PushAccount("new", Some(keypair), pk)
              ELSE /\ result' = Err("FileError", "Couldn't write keypair file to disk")
                   /\ pc' = "returned"
                   /\ UNCHANGED <<fs, new_accounts, accounts, signers, i>>
    /\ UNCHANGED <<rpc_client, response, target_name, config_file_content>>
    /\ UNCHANGED <<opts, steps, command, stdin, stdout, chain>>
    /\ UNCHANGED <<instr, raw_args, data, args>>

AccountsSelf ==
    /\ InAccountsLoop
    /\ account.item = "IdlAccount"
    /\ Get(raw_args, i) = Some("self")
    /\ \E CONFIG_FILE \in {None, Some("config.yml")}, path \in ConfigKeypairPaths :
          LET keypair == read_keypair_file(fs, path) IN
          IF CONFIG_FILE = None \/ keypair.tag = "Err"
          THEN \* unwrap() of a None / of an Err
               /\ result' = Panic
               /\ pc' = "returned"
               /\ UNCHANGED <<accounts, signers, i>>
          ELSE PushAccount("self", Some(keypair.v), pubkey(keypair.v))
    /\ UNCHANGED <<rpc_client, response, target_name, config_file_content>>
    /\ UNCHANGED <<opts, steps, command, stdin, stdout, chain>>
    /\ UNCHANGED <<instr, raw_args, data, args, fs, new_accounts, generated>>

AccountsSystem ==
    /\ InAccountsLoop
    /\ account.item = "IdlAccount"
    /\ Get(raw_args, i) = Some("system")
    /\ PushAccount("system", None, system_program_id)
    /\ UNCHANGED <<rpc_client, response, target_name, config_file_content>>
    /\ UNCHANGED <<opts, steps, command, stdin, stdout, chain>>
    /\ UNCHANGED <<instr, raw_args, data, args, fs, new_accounts, generated>>

AccountsOther ==
    /\ InAccountsLoop
    /\ account.item = "IdlAccount"
    /\ Get(raw_args, i) # None
    /\ Get(raw_args, i).v \notin {"new", "self", "system"}
    /\ LET raw_pubkey == Get(raw_args, i).v
           r == ResolveOther(fs, raw_pubkey)
       IN  IF r.tag = "Err"
           THEN /\ result' = r
                /\ pc' = "returned"
                /\ UNCHANGED <<accounts, signers, i>>
           ELSE PushAccount(raw_pubkey, r.v[1], r.v[2])
    /\ UNCHANGED <<rpc_client, response, target_name, config_file_content>>
    /\ UNCHANGED <<opts, steps, command, stdin, stdout, chain>>
    /\ UNCHANGED <<instr, raw_args, data, args, fs, new_accounts, generated>>

\* Line 184: Ok((accounts, signers, new_accounts))
AccountsReturn ==
    /\ pc = "accounts"
    /\ i = Len(instr.accounts)
    /\ result' = Ok([accounts |-> accounts, signers |-> signers,
                     new_accounts |-> new_accounts])
    /\ pc' = "returned"
    /\ UNCHANGED <<rpc_client, response, target_name, config_file_content>>
    /\ UNCHANGED <<opts, steps, command, stdin, stdout, chain>>
    /\ UNCHANGED <<instr, raw_args, data, args, fs, i, accounts, signers, new_accounts, generated>>

construct_instruction_accounts ==
    \/ AccountsNested
    \/ AccountsMissing
    \/ AccountsNew
    \/ AccountsSelf
    \/ AccountsSystem
    \/ AccountsOther
    \/ AccountsReturn

AccountInstructions ==
    {[name |-> "flip", args |-> <<>>, accounts |-> a] :
        a \in UNION {AccountLists(n) : n \in 0..MaxAccounts}}

InitAccounts ==
    /\ instr \in AccountInstructions
    /\ raw_args \in UNION {RawLists(RawAccountStrings, n) : n \in 0..Len(instr.accounts)}
                   \cup {Append(l, x) : l \in RawLists(RawAccountStrings, Len(instr.accounts)),
                                        x \in SurplusAccountStrings}
    /\ fs = InitialFiles
    /\ pc = "accounts"
    /\ i = 0
    /\ accounts = <<>>
    /\ signers = <<>>
    /\ new_accounts = <<>>
    /\ generated = 0
    /\ data = <<>>
    /\ args = <<>>
    /\ result = Running
    /\ opts = None
    /\ steps = <<>>
    /\ command = None
    /\ stdin = None
    /\ stdout = <<>>
    /\ chain = None
    /\ rpc_client = None
    /\ response = <<>>
    /\ target_name = <<>>
    /\ config_file_content = None

SpecAccounts == InitAccounts /\ [][construct_instruction_accounts]_vars

(***************************************************************************)
(* Text.  A Rust String is modelled as the sequence of its characters,     *)
(* each a one-character string.  Printable lists the ASCII characters with *)
(* codes 32 (the space) to 95, Lowercase those with codes 97 to 126, so    *)
(* that the UTF-8 byte of a character follows from its place in the list.  *)
(***************************************************************************)
Printable == <<
    " ", "!", "\"", "#", "$", "%", "&", "'", "(", ")", "*", "+",
    ",", "-", ".", "/", "0", "1", "2", "3", "4", "5", "6", "7",
    "8", "9", ":", ";", "<", "=", ">", "?", "@", "A", "B", "C",
    "D", "E", "F", "G", "H", "I", "J", "K", "L", "M", "N", "O",
    "P", "Q", "R", "S", "T", "U", "V", "W", "X", "Y", "Z", "[",
    "\\", "]", "^", "_">>

Lowercase == <<
    "a", "b", "c", "d", "e", "f", "g", "h", "i", "j", "k", "l",
    "m", "n", "o", "p", "q", "r", "s", "t", "u", "v", "w", "x",
    "y", "z", "{", "|", "}", "~">>

as_byte(c) ==
    IF \E k \in 1..Len(Printable) : Printable[k] = c
    THEN (CHOOSE k \in 1..Len(Printable) : Printable[k] = c) + 31
    ELSE (CHOOSE k \in 1..Len(Lowercase) : Lowercase[k] = c) + 96

RECURSIVE as_bytes(_)
as_bytes(str) == IF str = <<>> THEN <<>> ELSE <<as_byte(Head(str))>> \o as_bytes(Tail(str))

Digits == <<"0", "1", "2", "3", "4", "5", "6", "7", "8", "9">>

IsDigit(c) == \E k \in 1..Len(Digits) : Digits[k] = c
DigitValue(c) == (CHOOSE k \in 1..Len(Digits) : Digits[k] = c) - 1

\* usize::to_string
RECURSIVE to_string(_)
to_string(n) ==
    IF n < Len(Digits) THEN <<Digits[n + 1]>>
    ELSE Append(to_string(n \div Len(Digits)), Digits[(n % Len(Digits)) + 1])

\* The characters of a path, joined into the name the file system knows.
RECURSIVE as_path(_)
as_path(str) == IF str = <<>> THEN "" ELSE Head(str) \o as_path(Tail(str))

\* str::split(','): always at least one piece.
RECURSIVE split(_, _)
split(str, sep) ==
    IF \A k \in 1..Len(str) : str[k] # sep THEN <<str>>
    ELSE LET k == CHOOSE k \in 1..Len(str) :
                      str[k] = sep /\ \A j \in 1..(k - 1) : str[j] # sep
         IN  <<SubSeq(str, 1, k - 1)>> \o split(SubSeq(str, k + 1, Len(str)), sep)

\* Mutant: only a leading and a trailing c are removed.
remove_atTheEnds(str, c) ==
    LET s1 == IF str # <<>> /\ Head(str) = c THEN Tail(str) ELSE str
    IN  IF s1 # <<>> /\ s1[Len(s1)] = c THEN SubSeq(s1, 1, Len(s1) - 1) ELSE s1

\* str::replace(c, "")
remove(str, c) == SelectSeq(str, LAMBDA x : x # c)

(***************************************************************************)
(* Integers.  A BigInt is a sign and a magnitude, the magnitude a          *)
(* little-endian sequence of bytes without leading zero bytes.             *)
(***************************************************************************)
BigInt(neg, mag) == [neg |-> neg, mag |-> mag]

\* mag * m + carry
RECURSIVE MulAdd(_, _, _)
MulAdd(mag, m, carry) ==
    IF mag = <<>>
    THEN IF carry = 0 THEN <<>> ELSE <<carry % 256>> \o MulAdd(<<>>, m, carry \div 256)
    ELSE LET v == Head(mag) * m + carry
         IN  <<v % 256>> \o MulAdd(Tail(mag), m, v \div 256)

RECURSIVE Trim(_)
Trim(mag) ==
    IF mag # <<>> /\ mag[Len(mag)] = 0 THEN Trim(SubSeq(mag, 1, Len(mag) - 1)) ELSE mag

\* acc * base^n + the number that n digit values spell in that base.
\* (The test on Len(acc) lets the accumulator be computed at every step.)
RECURSIVE Accumulate(_, _, _)
Accumulate(acc, values, base) ==
    IF values = <<>> \/ Len(acc) < 0 THEN acc
    ELSE Accumulate(Trim(MulAdd(acc, base, Head(values))), Tail(values), base)

\* The magnitude of a run of decimal digits.
Magnitude(digits) ==
    Accumulate(<<>>, [k \in 1..Len(digits) |-> DigitValue(digits[k])], 10)

AllDigits(str) == str # <<>> /\ \A k \in 1..Len(str) : IsDigit(str[k])

\* mag <= 2^(bits) - 1, and mag = 2^(bits) for bits = 8 * n - 1
FitsUnsigned(mag, width) == Len(mag) * 8 <= width
FitsPositive(mag, width) ==
    \/ Len(mag) * 8 < width
    \/ Len(mag) * 8 = width /\ mag[Len(mag)] < 128
IsMinimum(mag, width) ==
    /\ Len(mag) * 8 = width
    /\ mag[Len(mag)] = 128
    /\ \A k \in 1..(Len(mag) - 1) : mag[k] = 0

\* Mutant: the digits are taken as they come, without the range check.
parse_int_unchecked(str, signed, width) ==
    LET sign == IF str # <<>> /\ (str[1] = "+" \/ (str[1] = "-" /\ signed))
                THEN str[1] ELSE ""
        digits == IF sign = "" THEN str ELSE Tail(str)
    IN  IF ~AllDigits(digits) THEN Err("ParseIntError", str)
        ELSE Ok(BigInt(sign = "-" /\ Magnitude(digits) # <<>>, Magnitude(digits)))

\* str::parse::<uN>() and str::parse::<iN>() (core::num, radix 10): an optional
\* sign (`-` only for the signed types), then at least one digit, in range.
parse_int(str, signed, width) ==
    LET sign == IF str # <<>> /\ (str[1] = "+" \/ (str[1] = "-" /\ signed))
                THEN str[1] ELSE ""
        digits == IF sign = "" THEN str ELSE Tail(str)
    IN  IF ~AllDigits(digits) THEN Err("ParseIntError", str)
        ELSE LET mag == Magnitude(digits) IN
             IF ~signed
             THEN IF FitsUnsigned(mag, width) THEN Ok(BigInt(FALSE, mag))
                  ELSE Err("ParseIntError", str)
             ELSE IF sign = "-"
                  THEN IF FitsPositive(mag, width) \/ IsMinimum(mag, width)
                       THEN Ok(BigInt(mag # <<>>, mag))
                       ELSE Err("ParseIntError", str)
                  ELSE IF FitsPositive(mag, width) THEN Ok(BigInt(FALSE, mag))
                       ELSE Err("ParseIntError", str)

\* str::parse::<bool>()
parse_bool(str) ==
    IF str = <<"t", "r", "u", "e">> THEN Ok(TRUE)
    ELSE IF str = <<"f", "a", "l", "s", "e">> THEN Ok(FALSE)
    ELSE Err("ParseBoolError", str)

(***************************************************************************)
(* JSON (serde_json::Value), for the texts the model supplies: objects,    *)
(* strings without escapes, integers that fit 64 bits, true and false,     *)
(* separated by spaces.  Any other text is rejected.                       *)
(***************************************************************************)
\* j is one of String, Number, Bool, Object.
JValue(j, v) == [j |-> j, v |-> v]

Parsed(val, rest) == [ok |-> TRUE, val |-> val, rest |-> rest]
NotParsed == [ok |-> FALSE]

RECURSIVE SkipWs(_)
SkipWs(str) == IF str # <<>> /\ Head(str) = " " THEN SkipWs(Tail(str)) ELSE str

StartsWith(str, prefix) ==
    Len(str) >= Len(prefix) /\ SubSeq(str, 1, Len(prefix)) = prefix

\* str starts with the opening quote.
ParseJString(str) ==
    IF \A k \in 2..Len(str) : str[k] # "\"" THEN NotParsed
    ELSE LET k == CHOOSE k \in 2..Len(str) :
                      str[k] = "\"" /\ \A m \in 2..(k - 1) : str[m] # "\""
             body == SubSeq(str, 2, k - 1)
         IN  IF \E m \in 1..Len(body) : body[m] = "\\" THEN NotParsed
             ELSE Parsed(JValue("String", body), SubSeq(str, k + 1, Len(str)))

RECURSIVE DigitRun(_)
DigitRun(str) ==
    IF str # <<>> /\ IsDigit(Head(str)) THEN <<Head(str)>> \o DigitRun(Tail(str)) ELSE <<>>

\* str starts with `-` or a digit.  serde_json keeps an integer as it was
\* written, except a negative zero, which becomes the float -0.0.
ParseJNumber(str) ==
    LET neg == Head(str) = "-"
        digits == DigitRun(IF neg THEN Tail(str) ELSE str)
        rest == SubSeq(str, Len(digits) + (IF neg THEN 2 ELSE 1), Len(str))
    IN  IF digits = <<>> THEN NotParsed
        ELSE IF Len(digits) > 1 /\ digits[1] = "0" THEN NotParsed
        ELSE IF rest # <<>> /\ rest[1] \in {".", "e", "E"} THEN NotParsed
        ELSE IF neg /\ digits = <<"0">> THEN Parsed(JValue("Number", <<"-", "0", ".", "0">>), rest)
        ELSE Parsed(JValue("Number", IF neg THEN <<"-">> \o digits ELSE digits), rest)

RECURSIVE ParseJValue(_)
RECURSIVE ParseJMembers(_, _)

ParseJValue(text) ==
    LET str == SkipWs(text) IN
    IF str = <<>> THEN NotParsed
    ELSE IF Head(str) = "{"
         THEN LET inner == SkipWs(Tail(str)) IN
              IF inner # <<>> /\ Head(inner) = "}"
              THEN Parsed(JValue("Object", <<>>), Tail(inner))
              ELSE ParseJMembers(inner, <<>>)
    ELSE IF Head(str) = "\"" THEN ParseJString(str)
    ELSE IF Head(str) = "-" \/ IsDigit(Head(str)) THEN ParseJNumber(str)
    ELSE IF StartsWith(str, <<"t", "r", "u", "e">>)
         THEN Parsed(JValue("Bool", TRUE), SubSeq(str, 5, Len(str)))
    ELSE IF StartsWith(str, <<"f", "a", "l", "s", "e">>)
         THEN Parsed(JValue("Bool", FALSE), SubSeq(str, 6, Len(str)))
    ELSE NotParsed

\* The members of an object after `{` or `,`, up to and including `}`.
ParseJMembers(text, members) ==
    LET str == SkipWs(text) IN
    IF str = <<>> \/ Head(str) # "\"" THEN NotParsed
    ELSE LET key == ParseJString(str) IN
         IF ~key.ok THEN NotParsed
         ELSE LET colon == SkipWs(key.rest) IN
              IF colon = <<>> \/ Head(colon) # ":" THEN NotParsed
              ELSE LET val == ParseJValue(Tail(colon)) IN
                   IF ~val.ok THEN NotParsed
                   ELSE LET after == SkipWs(val.rest)
                            all == Append(members, [key |-> key.val.v, val |-> val.val])
                        IN  IF after = <<>> THEN NotParsed
                            ELSE IF Head(after) = "," THEN ParseJMembers(Tail(after), all)
                            ELSE IF Head(after) = "}" THEN Parsed(JValue("Object", all), Tail(after))
                            ELSE NotParsed

\* serde_json::from_str::<Value>: one value, then nothing but white space.
serde_json_from_str(text) ==
    LET r == ParseJValue(text) IN
    IF r.ok /\ SkipWs(r.rest) = <<>> THEN Ok(r.val) ELSE Err("JsonError", text)

\* Value::get(name): the member of that name (the last one, if repeated) of
\* an object, nothing for any other value.
Value_get(val, name) ==
    IF val.j = "Object" /\ \E k \in 1..Len(val.v) : val.v[k].key = name
    THEN LET k == CHOOSE k \in 1..Len(val.v) :
                      val.v[k].key = name /\ \A m \in (k + 1)..Len(val.v) : val.v[m].key # name
         IN  Some(val.v[k].val)
    ELSE None

\* Value::to_string: the compact JSON text of the value.
RECURSIVE Value_to_string(_)
RECURSIVE MembersToString(_)
\* Mutant: a string is rendered bare, without its quotes.
Value_to_string_bare(val) ==
    CASE val.j = "String" -> val.v
      [] val.j = "Number" -> val.v
      [] val.j = "Bool" -> IF val.v THEN <<"t", "r", "u", "e">> ELSE <<"f", "a", "l", "s", "e">>
      [] val.j = "Object" -> <<"{">> \o MembersToString(val.v) \o <<"}">>

Value_to_string(val) ==
    CASE val.j = "String" -> <<"\"">> \o val.v \o <<"\"">>
      [] val.j = "Number" -> val.v
      [] val.j = "Bool" -> IF val.v THEN <<"t", "r", "u", "e">> ELSE <<"f", "a", "l", "s", "e">>
      [] val.j = "Object" -> <<"{">> \o MembersToString(val.v) \o <<"}">>

MembersToString(members) ==
    IF members = <<>> THEN <<>>
    ELSE <<"\"">> \o members[1].key \o <<"\"", ":">> \o Value_to_string(members[1].val)
         \o (IF Len(members) > 1 THEN <<",">> ELSE <<>>) \o MembersToString(Tail(members))

\* Mutant: a leading `-` is refused.
parse_bytes_unsigned(str) ==
    LET s2 == IF str # <<>> /\ str[1] = "+" /\ ~(Len(str) > 1 /\ str[2] = "+") THEN Tail(str) ELSE str
        digits == remove(s2, "_")
    IN  IF s2 = <<>> \/ s2[1] = "_" \/ ~AllDigits(digits) THEN None
        ELSE Some(BigInt(FALSE, Magnitude(digits)))

\* BigInt::parse_bytes(.., 10) (num-bigint): an optional `-`, an optional `+`,
\* then digits, which may be separated by `_` but must start with a digit.
parse_bytes(str) ==
    LET neg == str # <<>> /\ str[1] = "-"
        s1 == IF neg /\ ~(Len(str) > 1 /\ str[2] = "+") THEN Tail(str) ELSE str
        s2 == IF s1 # <<>> /\ s1[1] = "+" /\ ~(Len(s1) > 1 /\ s1[2] = "+") THEN Tail(s1) ELSE s1
        digits == remove(s2, "_")
    IN  IF s2 = <<>> \/ s2[1] = "_" \/ ~AllDigits(digits) THEN None
        ELSE LET mag == Magnitude(digits) IN Some(BigInt(neg /\ mag # <<>>, mag))

\* hex::decode: an even number of hexadecimal digits, two per byte.
HexDigits == <<"0", "1", "2", "3", "4", "5", "6", "7", "8", "9", "a", "b", "c", "d", "e", "f">>
HexUpper == <<"0", "1", "2", "3", "4", "5", "6", "7", "8", "9", "A", "B", "C", "D", "E", "F">>

IsHex(c) == \E k \in 1..Len(HexDigits) : HexDigits[k] = c \/ HexUpper[k] = c
HexValue(c) == (CHOOSE k \in 1..Len(HexDigits) : HexDigits[k] = c \/ HexUpper[k] = c) - 1

RECURSIVE HexPairs(_)
HexPairs(str) ==
    IF str = <<>> THEN <<>>
    ELSE <<HexValue(str[1]) * Len(HexDigits) + HexValue(str[2])>> \o HexPairs(Tail(Tail(str)))

\* Mutant: the last digit of a string of odd length is dropped.
hex_decode_oddLengthTruncated(str) ==
    IF \A k \in 1..Len(str) : IsHex(str[k])
    THEN Ok(HexPairs(SubSeq(str, 1, 2 * (Len(str) \div 2)))) ELSE Err("FromHexError", str)

hex_decode(str) ==
    IF Len(str) % 2 = 0 /\ \A k \in 1..Len(str) : IsHex(str[k])
    THEN Ok(HexPairs(str)) ELSE Err("FromHexError", str)

\* base58::FromBase58: the big-endian bytes of the base-58 number, one zero
\* byte in front for every leading `1`.
Base58Alphabet == <<
    "1", "2", "3", "4", "5", "6", "7", "8", "9", "A", "B", "C", "D", "E", "F",
    "G", "H", "J", "K", "L", "M", "N", "P", "Q", "R", "S", "T", "U", "V", "W",
    "X", "Y", "Z", "a", "b", "c", "d", "e", "f", "g", "h", "i", "j", "k", "m",
    "n", "o", "p", "q", "r", "s", "t", "u", "v", "w", "x", "y", "z">>

IsBase58(c) == \E k \in 1..Len(Base58Alphabet) : Base58Alphabet[k] = c
Base58Value(c) == (CHOOSE k \in 1..Len(Base58Alphabet) : Base58Alphabet[k] = c) - 1

Base58Magnitude(str) ==
    Accumulate(<<>>, [k \in 1..Len(str) |-> Base58Value(str[k])], Len(Base58Alphabet))

RECURSIVE LeadingOnes(_)
LeadingOnes(str) ==
    IF str # <<>> /\ Head(str) = "1" THEN <<0>> \o LeadingOnes(Tail(str)) ELSE <<>>

Reverse(seq) == [k \in 1..Len(seq) |-> seq[Len(seq) + 1 - k]]

from_base58(str) ==
    IF \A k \in 1..Len(str) : IsBase58(str[k])
    THEN Ok(LeadingOnes(str) \o Reverse(Base58Magnitude(str)))
    ELSE Err("FromBase58Error", str)

(***************************************************************************)
(* The schema: declared types (anchor_syn IdlType) and type definitions.   *)
(***************************************************************************)
\* A declared type without parameters: Bool, U8 .. I256, F32, F64, Bytes,
\* String, PublicKey.
IdlType(ty) == [ty |-> ty]
Defined(name) == [ty |-> "Defined", name |-> name]
Option(elem) == [ty |-> "Option", elem |-> elem]
Vec(elem) == [ty |-> "Vec", elem |-> elem]
Array(elem, size) == [ty |-> "Array", elem |-> elem, size |-> size]

IdlField(name, ty) == [name |-> name, ty |-> ty]
Struct(name, fields) == [name |-> name, ty |-> [kind |-> "Struct", fields |-> fields]]
Enum(name, variants) == [name |-> name, ty |-> [kind |-> "Enum", variants |-> variants]]

(***************************************************************************)
(* Runtime values (BorshToken).                                            *)
(***************************************************************************)
\* Bool, Bytes, String, Address, Array and FixedArray carry a value v;
\* Uint and Int carry a width and a BigInt.
Token(token, v) == [token |-> token, v |-> v]
IntToken(token, width, value) == [token |-> token, width |-> width, value |-> value]

\* std::fs::read_to_string(path).  (The files the encoder is given to read
\* are text files; the text of a keypair file is not modelled.)
read_to_string(files, path) ==
    IF path \in DOMAIN files /\ files[path].type = "text"
    THEN Ok(files[path].text)
    ELSE Err("FileError", path)

(***************************************************************************)
(* crate::borsh_encoding: discriminator and encode_arguments.              *)
(***************************************************************************)
\* The first eight bytes of the SHA-256 hash of "<namespace>:<name>".
Sha256Prefix(preimage) ==
    CASE preimage = "global:new" -> <<135, 44, 205, 198, 25, 1, 72, 188>>
      [] preimage = "global:get" -> <<161, 224, 50, 61, 5, 210, 122, 216>>
      [] preimage = "global:flip" -> <<24, 243, 78, 161, 192, 246, 102, 103>>

discriminator(namespace, name) == Sha256Prefix(namespace \o ":" \o name)

\* n as `count` little-endian bytes (n mod 256^count).
RECURSIVE to_le_bytes(_, _)
to_le_bytes(n, count) ==
    IF count = 0 THEN <<>> ELSE <<n % 256>> \o to_le_bytes(n \div 256, count - 1)

\* A magnitude as exactly `count` little-endian bytes.
Resize(mag, count) == [k \in 1..count |-> IF k <= Len(mag) THEN mag[k] ELSE 0]

\* Two's complement: invert every byte and add one.
RECURSIVE AddOne(_)
AddOne(bytes) ==
    IF bytes = <<>> THEN <<>>
    ELSE IF Head(bytes) = 255 THEN <<0>> \o AddOne(Tail(bytes))
         ELSE <<Head(bytes) + 1>> \o Tail(bytes)

Negate(bytes) == AddOne([k \in 1..Len(bytes) |-> 255 - bytes[k]])

integer_bytes(value, width) ==
    IF value.neg THEN Negate(Resize(value.mag, width \div 8))
    ELSE Resize(value.mag, width \div 8)

RECURSIVE encode(_)
RECURSIVE encode_arguments(_)
encode(t) ==
    CASE t.token = "Bool" -> IF t.v THEN <<1>> ELSE <<0>>
      [] t.token \in {"Uint", "Int"} -> integer_bytes(t.value, t.width)
      [] t.token = "Bytes" -> to_le_bytes(Len(t.v), 4) \o t.v
      [] t.token = "String" -> to_le_bytes(Len(t.v), 4) \o as_bytes(t.v)
      [] t.token = "Address" -> t.v
      [] t.token = "Array" -> to_le_bytes(Len(t.v), 4) \o encode_arguments(t.v)
      [] t.token = "FixedArray" -> encode_arguments(t.v)

encode_arguments(tokens) ==
    IF tokens = <<>> THEN <<>> ELSE encode(Head(tokens)) \o encode_arguments(Tail(tokens))

(***************************************************************************)
(* get_borsh_token_vector and encode_id_defined_type                       *)
(***************************************************************************)
IntegerTypes == {"U8", "I8", "U16", "I16", "U32", "I32", "U64", "I64", "U128", "I128"}

IsSigned(ty) == ty \in {"I8", "I16", "I32", "I64", "I128", "I256"}

WidthOf(ty) ==
    CASE ty \in {"U8", "I8"} -> 8
      [] ty \in {"U16", "I16"} -> 16
      [] ty \in {"U32", "I32"} -> 32
      [] ty \in {"U64", "I64"} -> 64
      [] ty \in {"U128", "I128"} -> 128
      [] ty \in {"U256", "I256"} -> 256

\* The error the caller sees when a raw string does not parse as its type:
\* it names the declared type and carries the raw string.
ParseError(type_name, arg_value) == Err("ParseError", <<type_name, arg_value>>)

\* Mutant: a value of an unsupported type is left out of the payload.
Unsupported_leftOut(what) == Ok(<<>>)

\* return Err(anyhow!("Float is not supported")), and the same for Option
Unsupported(what) == Err("UnsupportedType", what)

\* Vec<T>::find(|t| t.name == *ty)
FindType(custom_types, name) ==
    IF \E k \in 1..Len(custom_types) : custom_types[k].name = name
    THEN Some(custom_types[CHOOSE k \in 1..Len(custom_types) :
                  custom_types[k].name = name
                  /\ \A m \in 1..(k - 1) : custom_types[m].name # name])
    ELSE None

\* Iterator::position(|v| v.name == arg_value), 0-based
Position(variants, arg_value) ==
    IF \E k \in 1..Len(variants) : variants[k] = arg_value
    THEN Some((CHOOSE k \in 1..Len(variants) :
                  variants[k] = arg_value /\ \A m \in 1..(k - 1) : variants[m] # arg_value) - 1)
    ELSE None

RECURSIVE get_borsh_token_vector(_, _, _)
RECURSIVE encode_id_defined_type(_, _, _)
RECURSIVE EncodeElements(_, _, _)
RECURSIVE EncodeFields(_, _, _)

\* Mutant: the tokens of every piece are put in front of the earlier ones.
RECURSIVE EncodeElements_reversed(_, _, _)
EncodeElements_reversed(val, elem_type, custom_types) ==
    IF val = <<>> THEN Ok(<<>>)
    ELSE LET borsh_arg == get_borsh_token_vector(Head(val), elem_type, custom_types) IN
         IF borsh_arg.tag = "Err" THEN borsh_arg
         ELSE LET others == EncodeElements_reversed(Tail(val), elem_type, custom_types) IN
              IF others.tag = "Err" THEN others ELSE Ok(others.v \o borsh_arg.v)

\* The loops of the Vec and Array arms: the tokens of every piece appended in
\* order, or the first error.
EncodeElements(val, elem_type, custom_types) ==
    IF val = <<>> THEN Ok(<<>>)
    ELSE LET borsh_arg == get_borsh_token_vector(Head(val), elem_type, custom_types) IN
         IF borsh_arg.tag = "Err" THEN borsh_arg
         ELSE LET others == EncodeElements(Tail(val), elem_type, custom_types) IN
              IF others.tag = "Err" THEN others ELSE Ok(borsh_arg.v \o others.v)

get_borsh_token_vector(arg_value, arg_type, custom_types) ==
    LET ty == arg_type.ty IN
    CASE ty = "Bool" ->
           LET val == parse_bool(arg_value) IN
           IF val.tag = "Err" THEN ParseError("bool", arg_value) ELSE Ok(<<Token("Bool", val.v)>>)
      [] ty \in IntegerTypes ->
           LET val == parse_int(arg_value, IsSigned(ty), WidthOf(ty)) IN
           IF val.tag = "Err"
           THEN ParseError((IF IsSigned(ty) THEN "i" ELSE "u") \o ToString(WidthOf(ty)), arg_value)
           ELSE IF IsSigned(ty) THEN Ok(<<IntToken("Int", WidthOf(ty), val.v)>>)
                ELSE Ok(<<IntToken("Uint", WidthOf(ty), val.v)>>)
      [] ty \in {"F32", "F64"} -> Unsupported("Float is not supported")
      [] ty = "U256" ->
           LET val == parse_bytes(arg_value) IN
           IF val = None THEN ParseError("u256", arg_value) ELSE Ok(<<IntToken("Uint", 256, val.v)>>)
      [] ty = "I256" ->
           LET val == parse_bytes(arg_value) IN
           IF val = None THEN ParseError("i256", arg_value) ELSE Ok(<<IntToken("Int", 256, val.v)>>)
      [] ty = "Bytes" ->
           LET val == hex_decode(arg_value) IN
           IF val.tag = "Err" THEN ParseError("Bytes", arg_value) ELSE Ok(<<Token("Bytes", val.v)>>)
      [] ty = "String" -> Ok(<<Token("String", arg_value)>>)
      [] ty = "PublicKey" ->
           LET val == from_base58(arg_value) IN
           IF val.tag = "Err" \/ Len(val.v) # 32 THEN ParseError("PublicKey", arg_value)
           ELSE Ok(<<Token("Address", val.v)>>)
      [] ty = "Defined" ->
           LET defined_type == FindType(custom_types, arg_type.name) IN
           IF defined_type = None THEN Err("TypeNotFound", arg_type.name)
           ELSE encode_id_defined_type(arg_value, defined_type.v, custom_types)
      [] ty = "Option" -> Unsupported("Option is not supported")
      [] ty = "Vec" ->
           LET val == split(arg_value, ",")
               borsh_args == EncodeElements(val, arg_type.elem, custom_types)
           IN  IF borsh_args.tag = "Err" THEN borsh_args ELSE Ok(<<Token("Array", borsh_args.v)>>)
      [] ty = "Array" ->
           LET val == split(arg_value, ",") IN
           IF Len(val) # arg_type.size THEN Err("ArraySizeMismatch", arg_value)
           ELSE LET borsh_args == EncodeElements(val, arg_type.elem, custom_types) IN
                IF borsh_args.tag = "Err" THEN borsh_args
                ELSE Ok(<<Token("FixedArray", borsh_args.v)>>)

\* Mutant: a declared field the JSON text lacks is skipped.
RECURSIVE EncodeFields_skipsMissing(_, _, _)
EncodeFields_skipsMissing(json_object, fields, custom_types) ==
    IF fields = <<>> THEN Ok(<<>>)
    ELSE LET field == Head(fields)
             field_value == Value_get(json_object, field.name)
             others == EncodeFields_skipsMissing(json_object, Tail(fields), custom_types)
         IN  IF field_value = None THEN others
             ELSE LET borsh_args == get_borsh_token_vector(Value_to_string(field_value.v),
                                                           field.ty, custom_types)
                  IN  IF borsh_args.tag = "Err" THEN borsh_args
                      ELSE IF others.tag = "Err" THEN others ELSE Ok(borsh_args.v \o others.v)

\* The loop over the fields of a Struct.
EncodeFields(json_object, fields, custom_types) ==
    IF fields = <<>> THEN Ok(<<>>)
    ELSE LET field == Head(fields)
             field_value == Value_get(json_object, field.name)
         IN  IF field_value = None THEN Err("FieldNotFound", field.name)
             ELSE LET borsh_args == get_borsh_token_vector(Value_to_string(field_value.v),
                                                           field.ty, custom_types)
                  IN  IF borsh_args.tag = "Err" THEN borsh_args
                      ELSE LET others == EncodeFields(json_object, Tail(fields), custom_types) IN
                           IF others.tag = "Err" THEN others ELSE Ok(borsh_args.v \o others.v)

\* Mutant: the raw string is parsed first, the file is read only if it is
\* not JSON.
encode_id_defined_type_textFirst(arg_value, defined_type, custom_types) ==
    IF defined_type.ty.kind = "Struct"
    THEN LET file == read_to_string(fs, as_path(arg_value))
             text == IF serde_json_from_str(arg_value).tag = "Err" /\ file.tag = "Ok"
                     THEN file.v ELSE arg_value
             json_object == serde_json_from_str(text)
         IN  IF json_object.tag = "Err" THEN ParseError("Struct", text)
             ELSE EncodeFields(json_object.v, defined_type.ty.fields, custom_types)
    ELSE LET name == remove(arg_value, "\"")
             variant_index == Position(defined_type.ty.variants, name)
         IN  IF variant_index = None
             THEN Err("VariantNotFound", <<name, defined_type.name, defined_type.ty.variants>>)
             ELSE get_borsh_token_vector(to_string(variant_index.v), IdlType("U8"), custom_types)

encode_id_defined_type(arg_value, defined_type, custom_types) ==
    IF defined_type.ty.kind = "Struct"
    THEN LET file == read_to_string(fs, as_path(arg_value))
             text == IF file.tag = "Ok" THEN file.v ELSE arg_value
             json_object == serde_json_from_str(text)
         IN  IF json_object.tag = "Err" THEN ParseError("Struct", text)
             ELSE EncodeFields(json_object.v, defined_type.ty.fields, custom_types)
    ELSE LET name == remove(arg_value, "\"")
             variant_index == Position(defined_type.ty.variants, name)
         IN  IF variant_index = None
             THEN Err("VariantNotFound", <<name, defined_type.name, defined_type.ty.variants>>)
             ELSE get_borsh_token_vector(to_string(variant_index.v), IdlType("U8"), custom_types)

\* How many of n steps a loop runs when it stops at the first step that
\* fails: all of them, or up to and including the first k with ~ok[k].
Attempted(n, ok) ==
    IF \A k \in 1..n : ok[k] THEN n
    ELSE CHOOSE k \in 1..n : ~ok[k] /\ \A m \in 1..(k - 1) : ok[m]

\* The calls of get_borsh_token_vector that one call makes, itself included:
\* the pairs <<arg_value, arg_type>> it is entered with, down the recursion
\* and up to the first call that fails.
RECURSIVE Calls(_, _, _)
Calls(arg_value, arg_type, types) ==
    LET ty == arg_type.ty
        Fine(value, type) == get_borsh_token_vector(value, type, types).tag = "Ok"
    IN  {<<arg_value, arg_type>>} \cup
        CASE ty \in {"Vec", "Array"} ->
               LET val == split(arg_value, ",")
                   run == IF ty = "Array" /\ Len(val) # arg_type.size THEN 0
                          ELSE Attempted(Len(val),
                                         [k \in 1..Len(val) |-> Fine(val[k], arg_type.elem)])
               IN  UNION {Calls(val[k], arg_type.elem, types) : k \in 1..run}
          [] ty = "Defined" /\ FindType(types, arg_type.name) # None ->
               LET defined_type == FindType(types, arg_type.name).v IN
               IF defined_type.ty.kind = "Struct"
               THEN LET file == read_to_string(fs, as_path(arg_value))
                        json_object == serde_json_from_str(IF file.tag = "Ok" THEN file.v
                                                           ELSE arg_value)
                        fields == defined_type.ty.fields
                        Field(k) == Value_get(json_object.v, fields[k].name)
                        Text(k) == Value_to_string(Field(k).v)
                    IN  IF json_object.tag = "Err" THEN {}
                        ELSE LET run == Attempted(Len(fields),
                                            [k \in 1..Len(fields) |->
                                                /\ Field(k) # None
                                                /\ Fine(Text(k), fields[k].ty)])
                             IN  UNION {IF Field(k) = None THEN {}
                                        ELSE Calls(Text(k), fields[k].ty, types) : k \in 1..run}
               ELSE LET variant_index == Position(defined_type.ty.variants,
                                                  remove(arg_value, "\""))
                    IN  IF variant_index = None THEN {}
                        ELSE Calls(to_string(variant_index.v), IdlType("U8"), types)
          [] OTHER -> {}

(***************************************************************************)
(* construct_instruction_data(instr, raw_args, custom_types)               *)
(***************************************************************************)
\* The type definitions of the schema: Person and Color (after
\* tests/contracts/DefinedTypes.json), two records that put a fixed array,
\* a float and an optional in a field, and a record without fields.
custom_types == <<
    Struct("Person", <<IdlField(<<"n", "a", "m", "e">>, IdlType("String")),
                       IdlField(<<"a", "g", "e">>, IdlType("U8")),
                       IdlField(<<"f", "a", "v", "o", "r", "i", "t", "e", "C", "o", "l", "o", "r">>,
                                Defined("Color"))>>),
    Enum("Color", <<<<"R", "e", "d">>, <<"G", "r", "e", "e", "n">>, <<"B", "l", "u", "e">>>>),
    Struct("Pair", <<IdlField(<<"i", "t", "e", "m", "s">>, Array(IdlType("U8"), 1)),
                     IdlField(<<"r", "a", "t", "i", "o">>, IdlType("F32"))>>),
    Struct("Maybe", <<IdlField(<<"v", "a", "l", "u", "e">>, Option(IdlType("U8")))>>),
    Struct("Unit", <<>>)>>

IdlArg(name, ty) == [name |-> name, ty |-> ty]

\* Mutant: the buffer starts empty, without the discriminator.
DataBegin_emptyBuffer ==
    /\ pc = "call_data"
    /\ data' = <<>>
    /\ args' = <<>>
    /\ i' = 0
    /\ pc' = "args"
    /\ UNCHANGED <<rpc_client, response, target_name, config_file_content>>
    /\ UNCHANGED <<opts, steps, command, stdin, stdout, chain>>
    /\ UNCHANGED <<instr, raw_args, fs, accounts, signers, new_accounts, generated, result>>

\* Lines 222-223
DataBegin ==
    /\ pc = "call_data"
    /\ data' = discriminator("global", instr.name)
    /\ args' = <<>>
    /\ i' = 0
    /\ pc' = "args"
    /\ UNCHANGED <<rpc_client, response, target_name, config_file_content>>
    /\ UNCHANGED <<opts, steps, command, stdin, stdout, chain>>
    /\ UNCHANGED <<instr, raw_args, fs, accounts, signers, new_accounts, generated, result>>

InArgsLoop == pc = "args" /\ i < Len(instr.args)

\* Lines 229-231: raw_args.get(i) is None
DataMissing ==
    /\ InArgsLoop
    /\ Get(raw_args, i) = None
    /\ result' = Err("MissingArgument", instr.args[i + 1].name)
    /\ pc' = "returned"
    /\ UNCHANGED <<rpc_client, response, target_name, config_file_content>>
    /\ UNCHANGED <<opts, steps, command, stdin, stdout, chain>>
    /\ UNCHANGED <<instr, raw_args, fs, i, accounts, signers, new_accounts, generated,
                   data, args>>

\* Mutant: a failed conversion ends the loop and what was encoded so far is
\* returned.
DataArgument_returnsPartial ==
    /\ InArgsLoop
    /\ Get(raw_args, i) # None
    /\ LET borsh_args == get_borsh_token_vector(Get(raw_args, i).v, instr.args[i + 1].ty,
                                                custom_types)
       IN  IF borsh_args.tag = "Err"
           THEN /\ result' = Ok(data \o encode_arguments(args))
                /\ pc' = "returned"
                /\ UNCHANGED <<args, i>>
           ELSE /\ args' = args \o borsh_args.v
                /\ i' = i + 1
                /\ UNCHANGED <<result, pc>>
    /\ UNCHANGED <<rpc_client, response, target_name, config_file_content>>
    /\ UNCHANGED <<opts, steps, command, stdin, stdout, chain>>
    /\ UNCHANGED <<instr, raw_args, fs, accounts, signers, new_accounts, generated, data>>

\* Lines 234-235: one argument converted (or the conversion's error returned)
DataArgument ==
    /\ InArgsLoop
    /\ Get(raw_args, i) # None
    /\ LET borsh_args == get_borsh_token_vector(Get(raw_args, i).v, instr.args[i + 1].ty,
                                                custom_types)
       IN  IF borsh_args.tag = "Err"
           THEN /\ result' = borsh_args
                /\ pc' = "returned"
                /\ UNCHANGED <<args, i>>
           ELSE /\ args' = args \o borsh_args.v
                /\ i' = i + 1
                /\ UNCHANGED <<result, pc>>
    /\ UNCHANGED <<rpc_client, response, target_name, config_file_content>>
    /\ UNCHANGED <<opts, steps, command, stdin, stdout, chain>>
    /\ UNCHANGED <<instr, raw_args, fs, accounts, signers, new_accounts, generated, data>>

\* Lines 238-241
DataReturn ==
    /\ pc = "args"
    /\ i = Len(instr.args)
    /\ data' = data \o encode_arguments(args)
    /\ result' = Ok(data')
    /\ pc' = "returned"
    /\ UNCHANGED <<rpc_client, response, target_name, config_file_content>>
    /\ UNCHANGED <<opts, steps, command, stdin, stdout, chain>>
    /\ UNCHANGED <<instr, raw_args, fs, i, accounts, signers, new_accounts, generated, args>>

construct_instruction_data ==
    \/ DataBegin
    \/ DataMissing
    \/ DataArgument
    \/ DataReturn

\* The declared types the encoder is run on, each with raw strings that
\* convert and raw strings that do not.
RawFor(ty) ==
    CASE ty = IdlType("Bool") -> {<<"t", "r", "u", "e">>, <<"1">>}
      [] ty = IdlType("U8") -> {<<"7">>, <<"2", "5", "6">>}
      [] ty = IdlType("String") -> {<<"h", "i">>}
      [] ty = Vec(IdlType("U8")) -> {<<"1", ",", "2">>, <<"1", ",", "x">>}
      [] ty = Array(IdlType("U8"), 2) ->
           {<<"1", ",", "2">>, <<"1", ",", "3", "0", "0">>, <<"1">>}
      [] ty = Defined("Color") -> {<<"B", "l", "u", "e">>, <<"P", "i", "n", "k">>}
      [] ty = Defined("Person") ->
           {<<"{", "\"", "n", "a", "m", "e", "\"", ":", "\"", "A", "l", "\"", ",", "\"", "a",
            "g", "e", "\"", ":", "3", "0", ",", "\"", "f", "a", "v", "o", "r", "i", "t", "e",
            "C", "o", "l", "o", "r", "\"", ":", "\"", "R", "e", "d", "\"", "}">>,
            <<"{", "\"", "n", "a", "m", "e", "\"", ":", "\"", "A", "l", "\"", ",", "\"", "a",
            "g", "e", "\"", ":", "3", "0", "0", ",", "\"", "f", "a", "v", "o", "r", "i", "t",
            "e", "C", "o", "l", "o", "r", "\"", ":", "\"", "R", "e", "d", "\"", "}">>,
            <<"{", "\"", "a", "g", "e", "\"", ":", "3", "0", ",", "\"", "f", "a", "v", "o", "r",
            "i", "t", "e", "C", "o", "l", "o", "r", "\"", ":", "\"", "P", "i", "n", "k", "\"",
            ",", "\"", "n", "a", "m", "e", "\"", ":", "\"", "A", "l", "\"", "}">>,
            <<"{", "\"", "n", "a", "m", "e", "\"", ":", "\"", "A", "l", "\"", "}">>}
      [] ty = IdlType("F32") -> {<<"1">>}

ArgTypes ==
    {IdlType("Bool"), IdlType("U8"), IdlType("String"), Vec(IdlType("U8")),
     Array(IdlType("U8"), 2), Defined("Color"), Defined("Person"), IdlType("F32")}

ArgNames == <<"first", "second", "third", "fourth">>

RECURSIVE ArgLists(_)
ArgLists(n) ==
    IF n = 0 THEN {<<>>}
    ELSE {Append(l, IdlArg(ArgNames[n], ty)) : l \in ArgLists(n - 1), ty \in ArgTypes}

\* Raw lists for declared arguments: one raw string per declared argument,
\* drawn from the strings of its type.
RECURSIVE RawArgLists(_, _)
RawArgLists(declared, n) ==
    IF n = 0 THEN {<<>>}
    ELSE {Append(l, a) : l \in RawArgLists(declared, n - 1), a \in RawFor(declared[n].ty)}

\* A raw string supplied beyond the declared count (never read by the code).
SurplusArgStrings == {<<"7">>}

DataInstructions ==
    {[name |-> name, args |-> a, accounts |-> <<>>] :
        name \in {"new", "get"}, a \in UNION {ArgLists(n) : n \in 0..MaxArgs}}

InitData ==
    /\ instr \in DataInstructions
    /\ raw_args \in UNION {RawArgLists(instr.args, n) : n \in 0..Len(instr.args)}
                   \cup {Append(l, x) : l \in RawArgLists(instr.args, Len(instr.args)),
                                        x \in SurplusArgStrings}
    /\ fs = InitialFiles
    /\ pc = "call_data"
    /\ i = 0
    /\ accounts = <<>>
    /\ signers = <<>>
    /\ new_accounts = <<>>
    /\ generated = 0
    /\ data = <<>>
    /\ args = <<>>
    /\ result = Running
    /\ opts = None
    /\ steps = <<>>
    /\ command = None
    /\ stdin = None
    /\ stdout = <<>>
    /\ chain = None
    /\ rpc_client = None
    /\ response = <<>>
    /\ target_name = <<>>
    /\ config_file_content = None

SpecData == InitData /\ [][construct_instruction_data]_vars

(***************************************************************************)
(* The encoder on one declared argument: every declared type the schema    *)
(* can name, each with raw strings that convert and raw strings that do    *)
(* not.                                                                    *)
(***************************************************************************)
EncodeRaw(ty) ==
    CASE ty = IdlType("U8") ->
           {<<"0">>,
            <<"7">>,
            <<"-", "0">>,
            <<"+", "7">>,
            <<"0", "0", "7">>,
            <<"-", "1">>,
            <<>>,
            <<"-">>,
            <<"+">>,
            <<"1", "_", "0">>,
            <<" ", "1">>,
            <<"1", " ">>,
            <<"0", "x", "1", "f">>,
            <<"a", "b", "c">>,
            <<"2", "5", "5">>,
            <<"2", "5", "6">>,
            <<"+", "2", "5", "5">>,
            <<"0", "2", "5", "5">>}
      [] ty = IdlType("I8") ->
           {<<"0">>,
            <<"7">>,
            <<"-", "0">>,
            <<"+", "7">>,
            <<"0", "0", "7">>,
            <<"-", "1">>,
            <<>>,
            <<"-">>,
            <<"+">>,
            <<"1", "_", "0">>,
            <<" ", "1">>,
            <<"1", " ">>,
            <<"0", "x", "1", "f">>,
            <<"a", "b", "c">>,
            <<"1", "2", "7">>,
            <<"1", "2", "8">>,
            <<"-", "1", "2", "8">>,
            <<"-", "1", "2", "9">>,
            <<"+", "1", "2", "7">>,
            <<"-", "0", "1", "2", "8">>}
      [] ty = IdlType("U16") ->
           {<<"0">>,
            <<"7">>,
            <<"-", "0">>,
            <<"+", "7">>,
            <<"0", "0", "7">>,
            <<"-", "1">>,
            <<>>,
            <<"-">>,
            <<"+">>,
            <<"1", "_", "0">>,
            <<" ", "1">>,
            <<"1", " ">>,
            <<"0", "x", "1", "f">>,
            <<"a", "b", "c">>,
            <<"6", "5", "5", "3", "5">>,
            <<"6", "5", "5", "3", "6">>,
            <<"+", "6", "5", "5", "3", "5">>,
            <<"0", "6", "5", "5", "3", "5">>}
      [] ty = IdlType("I16") ->
           {<<"0">>,
            <<"7">>,
            <<"-", "0">>,
            <<"+", "7">>,
            <<"0", "0", "7">>,
            <<"-", "1">>,
            <<>>,
            <<"-">>,
            <<"+">>,
            <<"1", "_", "0">>,
            <<" ", "1">>,
            <<"1", " ">>,
            <<"0", "x", "1", "f">>,
            <<"a", "b", "c">>,
            <<"3", "2", "7", "6", "7">>,
            <<"3", "2", "7", "6", "8">>,
            <<"-", "3", "2", "7", "6", "8">>,
            <<"-", "3", "2", "7", "6", "9">>,
            <<"+", "3", "2", "7", "6", "7">>,
            <<"-", "0", "3", "2", "7", "6", "8">>}
      [] ty = IdlType("U32") ->
           {<<"0">>,
            <<"7">>,
            <<"-", "0">>,
            <<"+", "7">>,
            <<"0", "0", "7">>,
            <<"-", "1">>,
            <<>>,
            <<"-">>,
            <<"+">>,
            <<"1", "_", "0">>,
            <<" ", "1">>,
            <<"1", " ">>,
            <<"0", "x", "1", "f">>,
            <<"a", "b", "c">>,
            <<"4", "2", "9", "4", "9", "6", "7", "2", "9", "5">>,
            <<"4", "2", "9", "4", "9", "6", "7", "2", "9", "6">>,
            <<"+", "4", "2", "9", "4", "9", "6", "7", "2", "9", "5">>,
            <<"0", "4", "2", "9", "4", "9", "6", "7", "2", "9", "5">>}
      [] ty = IdlType("I32") ->
           {<<"0">>,
            <<"7">>,
            <<"-", "0">>,
            <<"+", "7">>,
            <<"0", "0", "7">>,
            <<"-", "1">>,
            <<>>,
            <<"-">>,
            <<"+">>,
            <<"1", "_", "0">>,
            <<" ", "1">>,
            <<"1", " ">>,
            <<"0", "x", "1", "f">>,
            <<"a", "b", "c">>,
            <<"2", "1", "4", "7", "4", "8", "3", "6", "4", "7">>,
            <<"2", "1", "4", "7", "4", "8", "3", "6", "4", "8">>,
            <<"-", "2", "1", "4", "7", "4", "8", "3", "6", "4", "8">>,
            <<"-", "2", "1", "4", "7", "4", "8", "3", "6", "4", "9">>,
            <<"+", "2", "1", "4", "7", "4", "8", "3", "6", "4", "7">>,
            <<"-", "0", "2", "1", "4", "7", "4", "8", "3", "6", "4", "8">>}
      [] ty = IdlType("U64") ->
           {<<"0">>,
            <<"7">>,
            <<"-", "0">>,
            <<"+", "7">>,
            <<"0", "0", "7">>,
            <<"-", "1">>,
            <<>>,
            <<"-">>,
            <<"+">>,
            <<"1", "_", "0">>,
            <<" ", "1">>,
            <<"1", " ">>,
            <<"0", "x", "1", "f">>,
            <<"a", "b", "c">>,
            <<"1", "8", "4", "4", "6", "7", "4", "4", "0", "7", "3", "7", "0", "9", "5", "5", "1",
              "6", "1", "5">>,
            <<"1", "8", "4", "4", "6", "7", "4", "4", "0", "7", "3", "7", "0", "9", "5", "5", "1",
              "6", "1", "6">>,
            <<"+", "1", "8", "4", "4", "6", "7", "4", "4", "0", "7", "3", "7", "0", "9", "5", "5",
              "1", "6", "1", "5">>,
            <<"0", "1", "8", "4", "4", "6", "7", "4", "4", "0", "7", "3", "7", "0", "9", "5", "5",
              "1", "6", "1", "5">>}
      [] ty = IdlType("I64") ->
           {<<"0">>,
            <<"7">>,
            <<"-", "0">>,
            <<"+", "7">>,
            <<"0", "0", "7">>,
            <<"-", "1">>,
            <<>>,
            <<"-">>,
            <<"+">>,
            <<"1", "_", "0">>,
            <<" ", "1">>,
            <<"1", " ">>,
            <<"0", "x", "1", "f">>,
            <<"a", "b", "c">>,
            <<"9", "2", "2", "3", "3", "7", "2", "0", "3", "6", "8", "5", "4", "7", "7", "5", "8",
              "0", "7">>,
            <<"9", "2", "2", "3", "3", "7", "2", "0", "3", "6", "8", "5", "4", "7", "7", "5", "8",
              "0", "8">>,
            <<"-", "9", "2", "2", "3", "3", "7", "2", "0", "3", "6", "8", "5", "4", "7", "7", "5",
              "8", "0", "8">>,
            <<"-", "9", "2", "2", "3", "3", "7", "2", "0", "3", "6", "8", "5", "4", "7", "7", "5",
              "8", "0", "9">>,
            <<"+", "9", "2", "2", "3", "3", "7", "2", "0", "3", "6", "8", "5", "4", "7", "7", "5",
              "8", "0", "7">>,
            <<"-", "0", "9", "2", "2", "3", "3", "7", "2", "0", "3", "6", "8", "5", "4", "7", "7",
              "5", "8", "0", "8">>}
      [] ty = IdlType("U128") ->
           {<<"0">>,
            <<"7">>,
            <<"-", "0">>,
            <<"+", "7">>,
            <<"0", "0", "7">>,
            <<"-", "1">>,
            <<>>,
            <<"-">>,
            <<"+">>,
            <<"1", "_", "0">>,
            <<" ", "1">>,
            <<"1", " ">>,
            <<"0", "x", "1", "f">>,
            <<"a", "b", "c">>,
            <<"3", "4", "0", "2", "8", "2", "3", "6", "6", "9", "2", "0", "9", "3", "8", "4", "6",
              "3", "4", "6", "3", "3", "7", "4", "6", "0", "7", "4", "3", "1", "7", "6", "8", "2",
              "1", "1", "4", "5", "5">>,
            <<"3", "4", "0", "2", "8", "2", "3", "6", "6", "9", "2", "0", "9", "3", "8", "4", "6",
              "3", "4", "6", "3", "3", "7", "4", "6", "0", "7", "4", "3", "1", "7", "6", "8", "2",
              "1", "1", "4", "5", "6">>,
            <<"+", "3", "4", "0", "2", "8", "2", "3", "6", "6", "9", "2", "0", "9", "3", "8", "4",
              "6", "3", "4", "6", "3", "3", "7", "4", "6", "0", "7", "4", "3", "1", "7", "6", "8",
              "2", "1", "1", "4", "5", "5">>,
            <<"0", "3", "4", "0", "2", "8", "2", "3", "6", "6", "9", "2", "0", "9", "3", "8", "4",
              "6", "3", "4", "6", "3", "3", "7", "4", "6", "0", "7", "4", "3", "1", "7", "6", "8",
              "2", "1", "1", "4", "5", "5">>}
      [] ty = IdlType("I128") ->
           {<<"0">>,
            <<"7">>,
            <<"-", "0">>,
            <<"+", "7">>,
            <<"0", "0", "7">>,
            <<"-", "1">>,
            <<>>,
            <<"-">>,
            <<"+">>,
            <<"1", "_", "0">>,
            <<" ", "1">>,
            <<"1", " ">>,
            <<"0", "x", "1", "f">>,
            <<"a", "b", "c">>,
            <<"1", "7", "0", "1", "4", "1", "1", "8", "3", "4", "6", "0", "4", "6", "9", "2", "3",
              "1", "7", "3", "1", "6", "8", "7", "3", "0", "3", "7", "1", "5", "8", "8", "4", "1",
              "0", "5", "7", "2", "7">>,
            <<"1", "7", "0", "1", "4", "1", "1", "8", "3", "4", "6", "0", "4", "6", "9", "2", "3",
              "1", "7", "3", "1", "6", "8", "7", "3", "0", "3", "7", "1", "5", "8", "8", "4", "1",
              "0", "5", "7", "2", "8">>,
            <<"-", "1", "7", "0", "1", "4", "1", "1", "8", "3", "4", "6", "0", "4", "6", "9", "2",
              "3", "1", "7", "3", "1", "6", "8", "7", "3", "0", "3", "7", "1", "5", "8", "8", "4",
              "1", "0", "5", "7", "2", "8">>,
            <<"-", "1", "7", "0", "1", "4", "1", "1", "8", "3", "4", "6", "0", "4", "6", "9", "2",
              "3", "1", "7", "3", "1", "6", "8", "7", "3", "0", "3", "7", "1", "5", "8", "8", "4",
              "1", "0", "5", "7", "2", "9">>,
            <<"+", "1", "7", "0", "1", "4", "1", "1", "8", "3", "4", "6", "0", "4", "6", "9", "2",
              "3", "1", "7", "3", "1", "6", "8", "7", "3", "0", "3", "7", "1", "5", "8", "8", "4",
              "1", "0", "5", "7", "2", "7">>,
            <<"-", "0", "1", "7", "0", "1", "4", "1", "1", "8", "3", "4", "6", "0", "4", "6", "9",
              "2", "3", "1", "7", "3", "1", "6", "8", "7", "3", "0", "3", "7", "1", "5", "8", "8",
              "4", "1", "0", "5", "7", "2", "8">>}
      [] ty = IdlType("U256") ->
           {<<"0">>,
            <<"5">>,
            <<"-", "5">>,
            <<"+", "5">>,
            <<"1", "_", "0">>,
            <<"a", "b", "c">>,
            <<>>,
            <<"1", "1", "5", "7", "9", "2", "0", "8", "9", "2", "3", "7", "3", "1", "6", "1", "9",
              "5", "4", "2", "3", "5", "7", "0", "9", "8", "5", "0", "0", "8", "6", "8", "7", "9",
              "0", "7", "8", "5", "3", "2", "6", "9", "9", "8", "4", "6", "6", "5", "6", "4", "0",
              "5", "6", "4", "0", "3", "9", "4", "5", "7", "5", "8", "4", "0", "0", "7", "9", "1",
              "3", "1", "2", "9", "6", "3", "9", "9", "3", "5">>,
            <<"1", "1", "5", "7", "9", "2", "0", "8", "9", "2", "3", "7", "3", "1", "6", "1", "9",
              "5", "4", "2", "3", "5", "7", "0", "9", "8", "5", "0", "0", "8", "6", "8", "7", "9",
              "0", "7", "8", "5", "3", "2", "6", "9", "9", "8", "4", "6", "6", "5", "6", "4", "0",
              "5", "6", "4", "0", "3", "9", "4", "5", "7", "5", "8", "4", "0", "0", "7", "9", "1",
              "3", "1", "2", "9", "6", "3", "9", "9", "3", "6">>,
            <<"-", "5", "7", "8", "9", "6", "0", "4", "4", "6", "1", "8", "6", "5", "8", "0", "9",
              "7", "7", "1", "1", "7", "8", "5", "4", "9", "2", "5", "0", "4", "3", "4", "3", "9",
              "5", "3", "9", "2", "6", "6", "3", "4", "9", "9", "2", "3", "3", "2", "8", "2", "0",
              "2", "8", "2", "0", "1", "9", "7", "2", "8", "7", "9", "2", "0", "0", "3", "9", "5",
              "6", "5", "6", "4", "8", "1", "9", "9", "6", "8">>}
      [] ty = IdlType("I256") ->
           {<<"0">>,
            <<"5">>,
            <<"-", "5">>,
            <<"+", "5">>,
            <<"1", "_", "0">>,
            <<"a", "b", "c">>,
            <<>>,
            <<"1", "1", "5", "7", "9", "2", "0", "8", "9", "2", "3", "7", "3", "1", "6", "1", "9",
              "5", "4", "2", "3", "5", "7", "0", "9", "8", "5", "0", "0", "8", "6", "8", "7", "9",
              "0", "7", "8", "5", "3", "2", "6", "9", "9", "8", "4", "6", "6", "5", "6", "4", "0",
              "5", "6", "4", "0", "3", "9", "4", "5", "7", "5", "8", "4", "0", "0", "7", "9", "1",
              "3", "1", "2", "9", "6", "3", "9", "9", "3", "5">>,
            <<"1", "1", "5", "7", "9", "2", "0", "8", "9", "2", "3", "7", "3", "1", "6", "1", "9",
              "5", "4", "2", "3", "5", "7", "0", "9", "8", "5", "0", "0", "8", "6", "8", "7", "9",
              "0", "7", "8", "5", "3", "2", "6", "9", "9", "8", "4", "6", "6", "5", "6", "4", "0",
              "5", "6", "4", "0", "3", "9", "4", "5", "7", "5", "8", "4", "0", "0", "7", "9", "1",
              "3", "1", "2", "9", "6", "3", "9", "9", "3", "6">>,
            <<"-", "5", "7", "8", "9", "6", "0", "4", "4", "6", "1", "8", "6", "5", "8", "0", "9",
              "7", "7", "1", "1", "7", "8", "5", "4", "9", "2", "5", "0", "4", "3", "4", "3", "9",
              "5", "3", "9", "2", "6", "6", "3", "4", "9", "9", "2", "3", "3", "2", "8", "2", "0",
              "2", "8", "2", "0", "1", "9", "7", "2", "8", "7", "9", "2", "0", "0", "3", "9", "5",
              "6", "5", "6", "4", "8", "1", "9", "9", "6", "8">>}
      [] ty = IdlType("Bool") ->
           {<<"t", "r", "u", "e">>,
            <<"f", "a", "l", "s", "e">>,
            <<"T", "r", "u", "e">>,
            <<"1">>,
            <<>>}
      [] ty = IdlType("F32") ->
           {<<"1", ".", "5">>,
            <<"1">>,
            <<>>}
      [] ty = IdlType("F64") ->
           {<<"1", ".", "5">>,
            <<"1">>,
            <<>>}
      [] ty = Option(IdlType("U8")) ->
           {<<"1">>,
            <<>>}
      [] ty = Option(IdlType("F32")) ->
           {<<"1">>}
      [] ty = IdlType("Bytes") ->
           {<<>>,
            <<"1", "2", "3", "4", "5", "6">>,
            <<"f", "F">>,
            <<"0", "0">>,
            <<"1", "2", "3">>,
            <<"z", "z">>,
            <<"0", "x", "1", "2">>,
            <<"1", "2", " ">>}
      [] ty = IdlType("String") ->
           {<<>>,
            <<"h", "i">>,
            <<"a", ",", "b">>,
            <<"\"", "q", "\"">>,
            <<" ", "s", "p", " ">>,
            <<"{", "~", "}">>}
      [] ty = IdlType("PublicKey") ->
           {<<"1", "1", "1", "1", "1", "1", "1", "Q", "L", "b", "z", "7", "J", "H", "i", "B", "T",
              "s", "p", "S", "9", "6", "2", "R", "L", "K", "V", "8", "G", "n", "d", "W", "F", "w",
              "i", "E", "a", "q", "K", "M">>,
            <<"a", "b", "c">>,
            <<>>,
            <<"0">>}
      [] ty = Vec(IdlType("U8")) ->
           {<<"1", ",", "2", ",", "3">>,
            <<>>,
            <<"1", ",", ",", "2">>,
            <<"1", ",", "x">>,
            <<"7">>,
            <<"1", ",", "2", "5", "6">>}
      [] ty = Vec(IdlType("String")) ->
           {<<>>,
            <<"a", ",", "b">>,
            <<"a", ",", ",", "b">>,
            <<",">>}
      [] ty = Vec(IdlType("Bytes")) ->
           {<<>>,
            <<"1", "2", ",", "3", "4", "f", "f">>,
            <<"1", "2", ",", "3">>}
      [] ty = Vec(IdlType("Bool")) ->
           {<<>>,
            <<"t", "r", "u", "e", ",", "f", "a", "l", "s", "e">>}
      [] ty = Vec(IdlType("PublicKey")) ->
           {<<>>,
            <<"1", "1", "1", "1", "1", "1", "1", "1", "1", "1", "1", "1", "1", "1", "1", "1", "1",
              "1", "1", "1", "1", "1", "1", "1", "1", "1", "1", "1", "1", "1", "1", "1">>}
      [] ty = Vec(Defined("Unit")) ->
           {<<>>,
            <<"{", "}">>,
            <<"{", "}", ",", "{", "}">>}
      [] ty = Vec(Defined("Color")) ->
           {<<"R", "e", "d", ",", "B", "l", "u", "e">>,
            <<"R", "e", "d", ",", "P", "i", "n", "k">>,
            <<"\"", "G", "r", "e", "e", "n", "\"">>}
      [] ty = Vec(Defined("Person")) ->
           {<<"p", ".", "j", "s", "o", "n", ",", "p", ".", "j", "s", "o", "n">>,
            <<"p", ".", "j", "s", "o", "n">>,
            <<"{", "\"", "n", "a", "m", "e", "\"", ":", "\"", "A", "l", "\"", ",", "\"", "a", "g",
              "e", "\"", ":", "3", "0", ",", "\"", "f", "a", "v", "o", "r", "i", "t", "e", "C",
              "o", "l", "o", "r", "\"", ":", "\"", "R", "e", "d", "\"", "}">>,
            <<"n", "o", "t", "e", "s", ".", "t", "x", "t">>}
      [] ty = Vec(IdlType("F32")) ->
           {<<"1", ".", "5">>,
            <<>>}
      [] ty = Vec(Option(IdlType("U8"))) ->
           {<<"1">>}
      [] ty = Vec(Array(IdlType("U8"), 2)) ->
           {<<"1", ",", "2">>}
      [] ty = Vec(Array(IdlType("U8"), 1)) ->
           {<<"1", ",", "2">>,
            <<"1", ",", "x">>}
      [] ty = Vec(Vec(IdlType("U8"))) ->
           {<<"1", ",", "2">>}
      [] ty = Array(IdlType("U8"), 2) ->
           {<<"1", ",", "2">>,
            <<"1">>,
            <<"1", ",", "2", ",", "3">>,
            <<"1", ",", "3", "0", "0">>,
            <<>>,
            <<"x", ",", "y", ",", "z">>,
            <<"x", ",", "y">>}
      [] ty = Array(IdlType("U8"), 0) ->
           {<<>>,
            <<"1">>}
      [] ty = Array(IdlType("U8"), 4) ->
           {<<"1", ",", "2", ",", "3", ",", "4">>,
            <<"1", ",", "2", ",", "3">>}
      [] ty = Array(IdlType("String"), 2) ->
           {<<"a", ",", "b">>,
            <<"a">>,
            <<",">>}
      [] ty = Array(Array(IdlType("U8"), 1), 2) ->
           {<<"1", ",", "2">>,
            <<"1">>}
      [] ty = Array(Array(IdlType("U8"), 2), 1) ->
           {<<"1", ",", "2">>,
            <<"1">>}
      [] ty = Array(Vec(IdlType("U8")), 2) ->
           {<<"1", ",", "2">>}
      [] ty = Array(IdlType("F64"), 1) ->
           {<<"1", ".", "5">>,
            <<"1", ",", "2">>}
      [] ty = Array(Option(IdlType("U8")), 1) ->
           {<<"1">>}
      [] ty = Array(Defined("Color"), 2) ->
           {<<"R", "e", "d", ",", "G", "r", "e", "e", "n">>,
            <<"R", "e", "d">>}
      [] ty = Array(Defined("Person"), 1) ->
           {<<"p", ".", "j", "s", "o", "n">>,
            <<"p", ".", "j", "s", "o", "n", ",", "p", ".", "j", "s", "o", "n">>}
      [] ty = Defined("Color") ->
           {<<"R", "e", "d">>,
            <<"G", "r", "e", "e", "n">>,
            <<"B", "l", "u", "e">>,
            <<"\"", "G", "r", "e", "e", "n", "\"">>,
            <<"G", "r", "\"", "e", "e", "n">>,
            <<"\"", "\"", "B", "l", "u", "e">>,
            <<"P", "i", "n", "k">>,
            <<"r", "e", "d">>,
            <<>>,
            <<"\"", "P", "i", "n", "k", "\"">>,
            <<" ", "R", "e", "d">>}
      [] ty = Defined("Person") ->
           {<<"{", "\"", "x", "\"", ":", "1", "}">>,
            <<"{", "\"", "n", "a", "m", "e", "\"", ":", "\"", "A", "l", "i", "c", "e", "\"", ",",
              "\"", "a", "g", "e", "\"", ":", "3", "0", ",", "\"", "f", "a", "v", "o", "r", "i",
              "t", "e", "C", "o", "l", "o", "r", "\"", ":", "\"", "R", "e", "d", "\"", "}">>,
            <<"{", "\"", "n", "a", "m", "e", "\"", ":", "\"", "A", "l", "\"", ",", "\"", "a", "g",
              "e", "\"", ":", "3", "0", ",", "\"", "f", "a", "v", "o", "r", "i", "t", "e", "C",
              "o", "l", "o", "r", "\"", ":", "\"", "R", "e", "d", "\"", "}">>,
            <<"{", "\"", "f", "a", "v", "o", "r", "i", "t", "e", "C", "o", "l", "o", "r", "\"",
              ":", "\"", "B", "l", "u", "e", "\"", ",", "\"", "a", "g", "e", "\"", ":", "3", "0",
              ",", "\"", "n", "a", "m", "e", "\"", ":", "\"", "A", "l", "\"", "}">>,
            <<" ", "{", " ", "\"", "n", "a", "m", "e", "\"", " ", ":", " ", "\"", "A", "l", "\"",
              " ", ",", " ", "\"", "a", "g", "e", "\"", " ", ":", " ", "3", "0", " ", ",", " ",
              "\"", "f", "a", "v", "o", "r", "i", "t", "e", "C", "o", "l", "o", "r", "\"", " ",
              ":", " ", "\"", "R", "e", "d", "\"", " ", ",", " ", "\"", "x", "\"", " ", ":", " ",
              "1", " ", "}", " ">>,
            <<"{", "\"", "n", "a", "m", "e", "\"", ":", "\"", "A", "l", "\"", ",", "\"", "f", "a",
              "v", "o", "r", "i", "t", "e", "C", "o", "l", "o", "r", "\"", ":", "\"", "R", "e",
              "d", "\"", "}">>,
            <<"{", "\"", "f", "a", "v", "o", "r", "i", "t", "e", "C", "o", "l", "o", "r", "\"",
              ":", "\"", "R", "e", "d", "\"", "}">>,
            <<"{", "\"", "n", "a", "m", "e", "\"", ":", "\"", "A", "l", "\"", ",", "\"", "a", "g",
              "e", "\"", ":", "3", "0", "0", "}">>,
            <<"{", "\"", "n", "a", "m", "e", "\"", ":", "\"", "A", "l", "\"", ",", "\"", "a", "g",
              "e", "\"", ":", "3", "0", ",", "\"", "f", "a", "v", "o", "r", "i", "t", "e", "C",
              "o", "l", "o", "r", "\"", ":", "\"", "P", "i", "n", "k", "\"", "}">>,
            <<"{", "\"", "n", "a", "m", "e", "\"", ":", "\"", "A", "l", "\"", ",", "\"", "a", "g",
              "e", "\"", ":", "3", "0", ",", "\"", "a", "g", "e", "\"", ":", "3", "1", ",", "\"",
              "f", "a", "v", "o", "r", "i", "t", "e", "C", "o", "l", "o", "r", "\"", ":", "\"",
              "R", "e", "d", "\"", "}">>,
            <<"{", "\"", "n", "a", "m", "e", "\"", ":", "7", ",", "\"", "a", "g", "e", "\"", ":",
              "\"", "3", "0", "\"", ",", "\"", "f", "a", "v", "o", "r", "i", "t", "e", "C", "o",
              "l", "o", "r", "\"", ":", "\"", "R", "e", "d", "\"", "}">>,
            <<"{", "\"", "n", "a", "m", "e", "\"", ":", "\"", "A", "l", "\"", ",", "\"", "a", "g",
              "e", "\"", ":", "3", "0", ",", "\"", "f", "a", "v", "o", "r", "i", "t", "e", "C",
              "o", "l", "o", "r", "\"", ":", "t", "r", "u", "e", "}">>,
            <<"p", ".", "j", "s", "o", "n">>,
            <<"n", "o", "t", "e", "s", ".", "t", "x", "t">>,
            <<"m", "i", "s", "s", "i", "n", "g", ".", "j", "s", "o", "n">>,
            <<"5">>,
            <<"{", "}">>,
            <<>>}
      [] ty = Defined("Pair") ->
           {<<"{", "\"", "i", "t", "e", "m", "s", "\"", ":", "5", ",", "\"", "r", "a", "t", "i",
              "o", "\"", ":", "1", "}">>,
            <<"{", "\"", "i", "t", "e", "m", "s", "\"", ":", "\"", "1", ",", "2", "\"", ",", "\"",
              "r", "a", "t", "i", "o", "\"", ":", "1", "}">>,
            <<"{", "\"", "r", "a", "t", "i", "o", "\"", ":", "1", "}">>,
            <<"{", "\"", "i", "t", "e", "m", "s", "\"", ":", "5", "}">>,
            <<"{", "\"", "i", "t", "e", "m", "s", "\"", ":", "2", "5", "6", ",", "\"", "r", "a",
              "t", "i", "o", "\"", ":", "1", "}">>}
      [] ty = Defined("Maybe") ->
           {<<"{", "\"", "v", "a", "l", "u", "e", "\"", ":", "1", "}">>,
            <<"{", "}">>}
      [] ty = Defined("Nope") ->
           {<<"R", "e", "d">>}

EncodeTypes ==
    {IdlType("U8"), IdlType("I8"), IdlType("U16"), IdlType("I16"), IdlType("U32"),
     IdlType("I32"), IdlType("U64"), IdlType("I64"), IdlType("U128"), IdlType("I128"),
     IdlType("U256"), IdlType("I256"), IdlType("Bool"), IdlType("F32"), IdlType("F64"),
     Option(IdlType("U8")), Option(IdlType("F32")), IdlType("Bytes"), IdlType("String"),
     IdlType("PublicKey"), Vec(IdlType("U8")), Vec(IdlType("String")), Vec(IdlType("Bytes")),
     Vec(Defined("Color")), Vec(Defined("Person")), Vec(IdlType("F32")),
     Vec(IdlType("Bool")), Vec(IdlType("PublicKey")), Vec(Defined("Unit")),
     Vec(Option(IdlType("U8"))), Vec(Array(IdlType("U8"), 2)), Vec(Array(IdlType("U8"), 1)),
     Vec(Vec(IdlType("U8"))), Array(IdlType("U8"), 2), Array(IdlType("U8"), 0),
     Array(IdlType("U8"), 4), Array(IdlType("String"), 2), Array(Array(IdlType("U8"), 1), 2),
     Array(Array(IdlType("U8"), 2), 1), Array(Vec(IdlType("U8")), 2),
     Array(IdlType("F64"), 1), Array(Option(IdlType("U8")), 1), Array(Defined("Color"), 2),
     Array(Defined("Person"), 1), Defined("Color"), Defined("Person"), Defined("Pair"),
     Defined("Maybe"), Defined("Nope")}

\* One declared argument of a type of EncodeTypes, with one raw string of that
\* type or with none.
InitEncode ==
    /\ instr \in {[name |-> "new", args |-> <<IdlArg("first", ty)>>, accounts |-> <<>>] :
                     ty \in EncodeTypes}
    /\ raw_args \in {<<>>} \cup {<<arg_value>> : arg_value \in EncodeRaw(instr.args[1].ty)}
    /\ fs = InitialFiles
    /\ pc = "call_data"
    /\ i = 0
    /\ accounts = <<>>
    /\ signers = <<>>
    /\ new_accounts = <<>>
    /\ generated = 0
    /\ data = <<>>
    /\ args = <<>>
    /\ result = Running
    /\ opts = None
    /\ steps = <<>>
    /\ command = None
    /\ stdin = None
    /\ stdout = <<>>
    /\ chain = None
    /\ rpc_client = None
    /\ response = <<>>
    /\ target_name = <<>>
    /\ config_file_content = None

SpecEncode == InitEncode /\ [][construct_instruction_data]_vars

(***************************************************************************)
(* decode_instruction_return_data (printing_utils.rs): the return data of  *)
(* a transaction, read from its log messages.                              *)
(***************************************************************************)
\* str::contains
contains(str, pattern) ==
    \E k \in 0..(Len(str) - Len(pattern)) : SubSeq(str, k + 1, k + Len(pattern)) = pattern

\* str::split_whitespace().last()
split_whitespace_last(str) ==
    LET words == SelectSeq(split(str, " "), LAMBDA w : w # <<>>)
    IN  IF words = <<>> THEN None ELSE Some(words[Len(words)])

Base64Alphabet ==
    <<"A", "B", "C", "D", "E", "F", "G", "H", "I", "J", "K", "L", "M", "N",
    "O", "P", "Q", "R", "S", "T", "U", "V", "W", "X", "Y", "Z", "a", "b",
    "c", "d", "e", "f", "g", "h", "i", "j", "k", "l", "m", "n", "o", "p",
    "q", "r", "s", "t", "u", "v", "w", "x", "y", "z", "0", "1", "2", "3",
    "4", "5", "6", "7", "8", "9", "+", "/">>

\* base64::decode.  The characters before the trailing `=` signs are digits
\* of six bits each; four of them spell three bytes, a last group of two or
\* three spells one or two bytes, and the bits of it that belong to no byte
\* must be zero.  Whether a text whose padding is missing or not canonical is
\* decoded or refused depends on the version of the crate, so both outcomes
\* are possible for it.
base64_decode(str) ==
    LET IsPadding(k) == \A j \in k..Len(str) : str[j] = "="
        n == Cardinality({k \in 1..Len(str) : ~IsPadding(k)})
        padding == Len(str) - n
        IsSymbol(c) == \E k \in 1..Len(Base64Alphabet) : Base64Alphabet[k] = c
        Sextet(k) == (CHOOSE j \in 1..Len(Base64Alphabet) : Base64Alphabet[j] = str[k]) - 1
        Byte(m) ==
            LET at == 4 * ((m - 1) \div 3) + ((m - 1) % 3)
                a == Sextet(at + 1)
                b == Sextet(at + 2)
            IN  CASE (m - 1) % 3 = 0 -> a * 4 + (b \div 16)
                  [] (m - 1) % 3 = 1 -> (a % 16) * 16 + (b \div 4)
                  [] (m - 1) % 3 = 2 -> (a % 4) * 64 + b
        count == 3 * (n \div 4) + (IF n % 4 = 0 THEN 0 ELSE (n % 4) - 1)
        trailing_bits ==
            CASE n % 4 = 2 -> Sextet(n) % 16
              [] n % 4 = 3 -> Sextet(n) % 4
              [] OTHER -> 0
    IN  IF (\E k \in 1..n : ~IsSymbol(str[k])) \/ n % 4 = 1
        THEN {Err("DecodeError", str)}
        ELSE IF trailing_bits # 0 THEN {Err("DecodeError", str)}
        ELSE IF (n + padding) % 4 = 0 /\ padding <= 2
        THEN {Ok([m \in 1..count |-> Byte(m)])}
        ELSE {Ok([m \in 1..count |-> Byte(m)]), Err("DecodeError", str)}

\* crate::borsh_encoding::decode_at_offset, for the types Bool, U8 .. U32 and
\* String.  Its caller takes a BorshToken from it, not a Result, so on a
\* buffer that is too short it has no error to return: it panics on the read
\* past the end, or it returns a token made of the bytes that are there.
decode_at_offset(bytes, offset, ty, types) ==
    LET available == Len(bytes) - offset
        Read(k) == IF k <= available THEN bytes[offset + k] ELSE 0
        le_bytes(count) == Read(1) + (IF count > 1 THEN 256 * Read(2) ELSE 0)
                           + (IF count > 2 THEN 65536 * Read(3) + 16777216 * Read(4) ELSE 0)
        from_utf8(b) == IF b < 96 THEN Printable[b - 31] ELSE Lowercase[b - 96]
        length == le_bytes(4)
        payload == IF available - 4 < length THEN (IF available > 4 THEN available - 4 ELSE 0)
                   ELSE length
        token ==
            CASE ty.ty = "Bool" -> Token("Bool", Read(1) = 1)
              [] ty.ty \in {"U8", "U16", "U32"} ->
                   IntToken("Uint", WidthOf(ty.ty), le_bytes(WidthOf(ty.ty) \div 8))
              [] ty.ty = "String" -> Token("String", [k \in 1..payload |-> from_utf8(Read(4 + k))])
        needed ==
            CASE ty.ty = "Bool" -> 1
              [] ty.ty \in {"U8", "U16", "U32"} -> WidthOf(ty.ty) \div 8
              [] ty.ty = "String" -> IF available < 4 THEN 4 ELSE 4 + length
    IN  IF available < needed THEN {Panic, token} ELSE {token}

\* impl Display for BorshToken (crate::borsh_encoding), for the tokens above.
BorshToken_to_string(token) ==
    CASE token.token = "Bool" ->
           IF token.v THEN <<"t", "r", "u", "e">> ELSE <<"f", "a", "l", "s", "e">>
      [] token.token = "Uint" -> to_string(token.value)
      [] token.token = "String" -> token.v

\* transaction_meta.log_messages: the lines the loop runs over.
log_messages(client) ==
    LET logs == client.transaction.v.meta.v.log_messages
    IN  IF logs.tag = "Some" THEN logs.v ELSE <<>>

\* Mutant: the transaction is fetched before the return type is looked at.
ReturnDataNone_afterFetch ==
    /\ pc = "return_data"
    /\ instr.returns = None
    /\ rpc_client' = [rpc_client EXCEPT !.requests = @ + 1]
    /\ result' = IF rpc_client.transaction.tag = "Err" THEN rpc_client.transaction ELSE Ok(None)
    /\ pc' = "returned"
    /\ UNCHANGED <<instr, raw_args, fs, i, accounts, signers, new_accounts, generated, data, args>>
    /\ UNCHANGED <<response, target_name, config_file_content>>
    /\ UNCHANGED <<opts, steps, command, stdin, stdout, chain>>

\* instruction.returns is None: nothing to decode.
ReturnDataNone ==
    /\ pc = "return_data"
    /\ instr.returns = None
    /\ result' = Ok(None)
    /\ pc' = "returned"
    /\ UNCHANGED <<instr, raw_args, fs, i, accounts, signers, new_accounts, generated, data, args>>
    /\ UNCHANGED <<rpc_client, response, target_name, config_file_content>>
    /\ UNCHANGED <<opts, steps, command, stdin, stdout, chain>>

\* rpc_client.get_transaction_with_config(signature, config)? and the meta of
\* the transaction it answers.
ReturnDataFetch ==
    /\ pc = "return_data"
    /\ instr.returns # None
    /\ rpc_client' = [rpc_client EXCEPT !.requests = @ + 1]
    /\ IF rpc_client.transaction.tag = "Err"
       THEN /\ result' = rpc_client.transaction
            /\ pc' = "returned"
       ELSE IF rpc_client.transaction.v.meta = None
       THEN /\ result' = Err("TransactionMeta", "Error fetching transaction return data from transaction meta")
            /\ pc' = "returned"
       ELSE /\ pc' = "logs"
            /\ UNCHANGED result
    /\ UNCHANGED <<instr, raw_args, fs, i, accounts, signers, new_accounts, generated, data, args>>
    /\ UNCHANGED <<response, target_name, config_file_content>>
    /\ UNCHANGED <<opts, steps, command, stdin, stdout, chain>>

\* Mutant: a rendering is put in front of the ones collected so far.
ReturnDataLog_prepended ==
    /\ pc = "logs"
    /\ i < Len(log_messages(rpc_client))
    /\ LET log == log_messages(rpc_client)[i + 1]
           word == split_whitespace_last(log)
       IN  IF ~contains(log, <<"P", "r", "o", "g", "r", "a", "m", " ", "r", "e", "t",
                                          "u", "r", "n">>)
           THEN /\ i' = i + 1
                /\ UNCHANGED <<response, result, pc>>
           ELSE IF word = None
           THEN /\ result' = Err("ReturnData", "Error extracting transaction return data from log")
                /\ pc' = "returned"
                /\ UNCHANGED <<response, i>>
           ELSE \E decoded \in base64_decode(word.v) :
                    IF decoded.tag = "Err"
                    THEN /\ result' = Err("ReturnData", "Error decoding transaction return data")
                         /\ pc' = "returned"
                         /\ UNCHANGED <<response, i>>
                    ELSE \E token \in decode_at_offset(decoded.v, 0, instr.returns.v, custom_types) :
                             IF token = Panic
                             THEN /\ result' = Panic
                                  /\ pc' = "returned"
                                  /\ UNCHANGED <<response, i>>
                             ELSE /\ response' = BorshToken_to_string(token) \o response
                                  /\ i' = i + 1
                                  /\ UNCHANGED <<result, pc>>
    /\ UNCHANGED <<instr, raw_args, fs, accounts, signers, new_accounts, generated, data, args>>
    /\ UNCHANGED <<rpc_client, target_name, config_file_content>>
    /\ UNCHANGED <<opts, steps, command, stdin, stdout, chain>>

\* One turn of `for log in val`.
ReturnDataLog ==
    /\ pc = "logs"
    /\ i < Len(log_messages(rpc_client))
    /\ LET log == log_messages(rpc_client)[i + 1]
           word == split_whitespace_last(log)
       IN  IF ~contains(log, <<"P", "r", "o", "g", "r", "a", "m", " ", "r", "e", "t",
                                          "u", "r", "n">>)
           THEN /\ i' = i + 1
                /\ UNCHANGED <<response, result, pc>>
           ELSE IF word = None
           THEN /\ result' = Err("ReturnData", "Error extracting transaction return data from log")
                /\ pc' = "returned"
                /\ UNCHANGED <<response, i>>
           ELSE \E decoded \in base64_decode(word.v) :
                    IF decoded.tag = "Err"
                    THEN /\ result' = Err("ReturnData", "Error decoding transaction return data")
                         /\ pc' = "returned"
                         /\ UNCHANGED <<response, i>>
                    ELSE \E token \in decode_at_offset(decoded.v, 0, instr.returns.v, custom_types) :
                             IF token = Panic
                             THEN /\ result' = Panic
                                  /\ pc' = "returned"
                                  /\ UNCHANGED <<response, i>>
                             ELSE /\ response' = response \o BorshToken_to_string(token)
                                  /\ i' = i + 1
                                  /\ UNCHANGED <<result, pc>>
    /\ UNCHANGED <<instr, raw_args, fs, accounts, signers, new_accounts, generated, data, args>>
    /\ UNCHANGED <<rpc_client, target_name, config_file_content>>
    /\ UNCHANGED <<opts, steps, command, stdin, stdout, chain>>

\* Ok(Some(response))
ReturnDataReturn ==
    /\ pc = "logs"
    /\ i = Len(log_messages(rpc_client))
    /\ result' = Ok(Some(response))
    /\ pc' = "returned"
    /\ UNCHANGED <<instr, raw_args, fs, i, accounts, signers, new_accounts, generated, data, args>>
    /\ UNCHANGED <<rpc_client, response, target_name, config_file_content>>
    /\ UNCHANGED <<opts, steps, command, stdin, stdout, chain>>

decode_instruction_return_data ==
    \/ ReturnDataNone
    \/ ReturnDataFetch
    \/ ReturnDataLog
    \/ ReturnDataReturn

\* Log lines: one that is not return data, return data of one, four and six
\* bytes, return data that is not base64, return data without its padding,
\* and a string cut short.
LogLines ==
    {<<"P", "r", "o", "g", "r", "a", "m", " ", "l", "o", "g", ":", " ", "h", "i">>,
     <<"P", "r", "o", "g", "r", "a", "m", " ", "r", "e", "t", "u", "r", "n", ":", " ", "P", "k",
       " ", "A", "Q", "=", "=">>,
     <<"P", "r", "o", "g", "r", "a", "m", " ", "r", "e", "t", "u", "r", "n", ":", " ", "P", "k",
       " ", "A", "Q", "A", "A", "A", "A", "=", "=">>,
     <<"P", "r", "o", "g", "r", "a", "m", " ", "r", "e", "t", "u", "r", "n", ":", " ", "P", "k",
       " ", "A", "g", "A", "A", "A", "G", "h", "p">>,
     <<"P", "r", "o", "g", "r", "a", "m", " ", "r", "e", "t", "u", "r", "n", ":", " ", "P", "k",
       " ", "A", "!", "=", "=">>,
     <<"P", "r", "o", "g", "r", "a", "m", " ", "r", "e", "t", "u", "r", "n", ":", " ", "P", "k",
       " ", "A", "Q">>,
     <<"P", "r", "o", "g", "r", "a", "m", " ", "r", "e", "t", "u", "r", "n", ":", " ", "P", "k",
       " ", "A", "g", "A", "A", "A", "G", "g", "=">>}

\* What the node answers to get_transaction_with_config: an error, a
\* transaction without meta, one whose log messages are absent or skipped,
\* one with up to two log lines.
Transactions ==
    {Err("ClientError", "get_transaction_with_config"), Ok([meta |-> None])}
    \cup {Ok([meta |-> Some([log_messages |-> logs])]) :
             logs \in {[tag |-> "None"], [tag |-> "Skip"], Some(<<>>)}
                      \cup {Some(<<a>>) : a \in LogLines}
                      \cup {Some(<<a, b>>) : a \in LogLines, b \in LogLines}}

InitDecode ==
    /\ instr \in {[name |-> "get", args |-> <<>>, accounts |-> <<>>, returns |-> returns] :
                     returns \in {None, Some(IdlType("Bool")), Some(IdlType("U8")),
                                  Some(IdlType("U32")), Some(IdlType("String"))}}
    /\ rpc_client \in {[transaction |-> transaction, requests |-> 0] :
                          transaction \in Transactions}
    /\ response = <<>>
    /\ raw_args = <<>>
    /\ fs = InitialFiles
    /\ pc = "return_data"
    /\ i = 0
    /\ accounts = <<>>
    /\ signers = <<>>
    /\ new_accounts = <<>>
    /\ generated = 0
    /\ data = <<>>
    /\ args = <<>>
    /\ result = Running
    /\ opts = None
    /\ steps = <<>>
    /\ command = None
    /\ stdin = None
    /\ stdout = <<>>
    /\ chain = None
    /\ target_name = <<>>
    /\ config_file_content = None

SpecDecode == InitDecode /\ [][decode_instruction_return_data]_vars

(***************************************************************************)
(* check_target_match (aqd-utils): the target a command is run for against *)
(* the target named in solang.toml.                                        *)
(***************************************************************************)
\* toml::from_str, for the fragment of TOML the configuration files are
\* written in: blank lines, comment lines, table headers `[a.b]`, and lines
\* `key = value` whose key is bare (dots allowed) and whose value is a
\* string without escapes, an integer, or a boolean.  The document is the
\* set of its entries, each the path of a key and its value; a path given
\* twice is an error.
RECURSIVE toml_lines(_, _, _)
toml_lines(lines, table, entries) ==
    LET trim(str) == Reverse(SkipWs(Reverse(SkipWs(str))))
        IsBare(c) == \/ IsDigit(c)
                     \/ \E k \in 1..26 : Lowercase[k] = c
                     \/ \E k \in 34..59 : Printable[k] = c
                     \/ c \in {"_", "-"}
        toml_key(str) ==
            LET parts == [k \in 1..Len(split(str, ".")) |-> trim(split(str, ".")[k])]
            IN  IF \A k \in 1..Len(parts) :
                       parts[k] # <<>> /\ \A j \in 1..Len(parts[k]) : IsBare(parts[k][j])
                THEN Some(parts) ELSE None
        Quoted(str, quote) ==
            /\ Len(str) >= 2
            /\ str[1] = quote
            /\ str[Len(str)] = quote
            /\ \A k \in 2..(Len(str) - 1) : str[k] \notin {quote, "\\"}
        toml_value(str) ==
            IF Quoted(str, "\"") \/ Quoted(str, "'")
            THEN Some([type |-> "String", v |-> SubSeq(str, 2, Len(str) - 1)])
            ELSE IF str # <<>> /\ (\A k \in 1..Len(str) : IsDigit(str[k]))
                    /\ (Len(str) = 1 \/ str[1] # "0")
            THEN Some([type |-> "Integer", v |-> str])
            ELSE IF str \in {<<"t", "r", "u", "e">>, <<"f", "a", "l", "s", "e">>}
            THEN Some([type |-> "Boolean", v |-> str])
            ELSE None
        Defined_twice(path) == \E e \in entries : e.path = path
    IN  IF lines = <<>> THEN Ok(entries)
        ELSE LET line == trim(Head(lines)) IN
             IF line = <<>> \/ Head(line) = "#" THEN toml_lines(Tail(lines), table, entries)
             ELSE IF Head(line) = "["
             THEN LET key == IF line[Len(line)] = "]"
                             THEN toml_key(SubSeq(line, 2, Len(line) - 1)) ELSE None
                  IN  IF key = None \/ Defined_twice(key.v) THEN Err("TomlError", line)
                      ELSE toml_lines(Tail(lines), key.v,
                                      entries \cup {[path |-> key.v, value |-> [type |-> "Table"]]})
             ELSE IF \A k \in 1..Len(line) : line[k] # "=" THEN Err("TomlError", line)
             ELSE LET at == CHOOSE k \in 1..Len(line) :
                                line[k] = "=" /\ \A j \in 1..(k - 1) : line[j] # "="
                      key == toml_key(trim(SubSeq(line, 1, at - 1)))
                      value == toml_value(trim(SubSeq(line, at + 1, Len(line))))
                  IN  IF key = None \/ value = None \/ Defined_twice(table \o key.v)
                      THEN Err("TomlError", line)
                      ELSE toml_lines(Tail(lines), table,
                                      entries \cup {[path |-> table \o key.v, value |-> value.v]})

toml_from_str(content) == toml_lines(split(content, "\n"), <<>>, {})

\* Mutant: the two names are compared without the spaces around them.
check_target_match_trimmed(files, name, content_option) ==
    LET trim(str) == Reverse(SkipWs(Reverse(SkipWs(str))))
        parsed_toml == toml_from_str(content_option.v)
        found == IF parsed_toml.tag = "Err" THEN {}
                 ELSE {e \in parsed_toml.v : e.path = <<<<"t", "a", "r", "g", "e", "t">>, <<"n", "a", "m", "e">>>>}
        config_target == (CHOOSE e \in found : TRUE).value
    IN  IF content_option = None THEN Ok(TRUE)
        ELSE IF parsed_toml.tag = "Err" THEN Err("TomlError", "Failed to parse solang.toml")
        ELSE IF found = {} THEN Panic
        ELSE IF config_target.type # "String"
        THEN Err("TargetName", "Failed to get target name from solang.toml")
        ELSE Ok(trim(config_target.v) = trim(name))

\* check_target_match(target_name, config_file_content), run in a directory
\* whose files are `files`.  Indexing a toml::Value by a key it does not have
\* panics.
check_target_match(files, name, content_option) ==
    IF content_option = None /\ "solang.toml" \notin DOMAIN files THEN Ok(TRUE)
    ELSE LET content == IF content_option # None THEN Ok(content_option.v)
                        ELSE read_to_string(files, "solang.toml")
             parsed_toml == toml_from_str(content.v)
             found == {e \in parsed_toml.v : e.path = <<<<"t", "a", "r", "g", "e", "t">>, <<"n", "a", "m", "e">>>>}
             config_target == (CHOOSE e \in found : TRUE).value
         IN  IF content.tag = "Err"
             THEN Err("FileError", "Failed to read solang.toml file in the current directory")
             ELSE IF parsed_toml.tag = "Err"
             THEN Err("TomlError", "Failed to parse solang.toml file in the current directory")
             ELSE IF found = {} THEN Panic
             ELSE IF config_target.type # "String"
             THEN Err("TargetName", "Failed to get target name from solang.toml")
             ELSE IF config_target.v # name THEN Ok(FALSE)
             ELSE Ok(TRUE)

CheckTargetMatch ==
    /\ pc = "check_target"
    /\ result' = check_target_match(fs, target_name, config_file_content)
    /\ pc' = "returned"
    /\ UNCHANGED <<instr, raw_args, fs, i, accounts, signers, new_accounts, generated, data, args>>
    /\ UNCHANGED <<rpc_client, response, target_name, config_file_content>>
    /\ UNCHANGED <<opts, steps, command, stdin, stdout, chain>>

\* Target names, as a command passes them and as a configuration names them.
TargetNames ==
    {<<"s", "o", "l", "a", "n", "a">>,
     <<"p", "o", "l", "k", "a", "d", "o", "t">>,
     <<"S", "o", "l", "a", "n", "a">>,
     <<"s", "o", "l", "a", "n", "a", " ">>}

\* A configuration that names its target in a [target] table, as
\* solang_config_examples/solana_config.toml does.
WithTarget(before, name) ==
    before \o <<"[", "t", "a", "r", "g", "e", "t", "]", "\n", "n", "a", "m", "e", " ", "=", " ",
                "\"">>
    \o name \o <<"\"", "\n">>

\* Configurations: those that name a target (after nothing, after a package
\* table, after a comment), and those that name it in another way, name
\* something that is not a string, name none, or are not TOML.
ConfigFiles ==
    {WithTarget(before, name) :
        before \in {<<>>,
                    <<"[", "p", "a", "c", "k", "a", "g", "e", "]", "\n", "v", "e", "r", "s", "i",
                      "o", "n", " ", "=", " ", "\"", "0", ".", "1", ".", "0", "\"", "\n", "\n">>,
                    <<"#", " ", "n", "a", "m", "e", " ", "=", " ", "\"", "s", "o", "l", "a", "n",
                      "a", "\"", "\n">>},
        name \in TargetNames}
    \cup {<<"[", "t", "a", "r", "g", "e", "t", "]", "\n", "n", "a", "m", "e", " ", "=", " ", "'",
            "s", "o", "l", "a", "n", "a", "'", "\n">>,
          <<"t", "a", "r", "g", "e", "t", ".", "n", "a", "m", "e", " ", "=", " ", "\"", "s", "o",
            "l", "a", "n", "a", "\"", "\n">>,
          <<"[", "t", "a", "r", "g", "e", "t", "]", "\n", "n", "a", "m", "e", " ", "=", " ", "5",
            "\n">>,
          <<"[", "t", "a", "r", "g", "e", "t", "]", "\n", "a", "d", "d", "r", "e", "s", "s", "_",
            "l", "e", "n", "g", "t", "h", " ", "=", " ", "3", "2", "\n">>,
          <<"[", "p", "a", "c", "k", "a", "g", "e", "]", "\n", "v", "e", "r", "s", "i", "o", "n",
            " ", "=", " ", "\"", "0", ".", "1", ".", "0", "\"", "\n">>,
          <<>>,
          <<"[", "t", "a", "r", "g", "e", "t", "\n", "n", "a", "m", "e", " ", "=", " ", "\"", "s",
            "o", "l", "a", "n", "a", "\"", "\n">>,
          <<"[", "t", "a", "r", "g", "e", "t", "]", "\n", "n", "a", "m", "e", " ", "=", " ", "\"",
            "s", "o", "l", "a", "n", "a", "\"", "\n", "n", "a", "m", "e", " ", "=", " ", "\"",
            "p", "o", "l", "k", "a", "d", "o", "t", "\"", "\n">>,
          <<"n", "a", "m", "e", " ", "=", " ", "\"", "s", "o", "l", "a", "n", "a", "\"", "\n">>,
          <<"[", "t", "a", "r", "g", "e", "t", "]", "\n", "n", "a", "m", "e", " ", "=", " ", "s",
            "o", "l", "a", "n", "a", "\n">>}

InitTarget ==
    /\ target_name \in TargetNames
    /\ \/ /\ config_file_content \in {Some(content) : content \in ConfigFiles}
          /\ fs = InitialFiles
       \/ /\ config_file_content = None
          /\ fs \in {InitialFiles,
                     [p \in DOMAIN InitialFiles \cup {"solang.toml"} |->
                         IF p = "solang.toml" THEN [type |-> "directory"] ELSE InitialFiles[p]]}
                    \cup {[p \in DOMAIN InitialFiles \cup {"solang.toml"} |->
                              IF p = "solang.toml" THEN TextFile(content) ELSE InitialFiles[p]] :
                             content \in ConfigFiles}
    /\ pc = "check_target"
    /\ instr = [name |-> "get", args |-> <<>>, accounts |-> <<>>]
    /\ raw_args = <<>>
    /\ i = 0
    /\ accounts = <<>>
    /\ signers = <<>>
    /\ new_accounts = <<>>
    /\ generated = 0
    /\ data = <<>>
    /\ args = <<>>
    /\ result = Running
    /\ opts = None
    /\ steps = <<>>
    /\ command = None
    /\ stdin = None
    /\ stdout = <<>>
    /\ chain = None
    /\ rpc_client = None
    /\ response = <<>>

SpecTarget == InitTarget /\ [][CheckTargetMatch]_vars

(***************************************************************************)
(* SolanaTransactionBuilder::done (solana_transaction.rs 410-459).  Its    *)
(* calls of construct_instruction_data and construct_instruction_accounts  *)
(* are the actions above, entered with the options of the builder.         *)
(***************************************************************************)
IdlFile(idl) == [type |-> "idl", idl |-> idl]

\* idl_from_json: File::open, then serde_json::from_reader into an Idl.
idl_from_json(files, file) ==
    IF file \in DOMAIN files /\ files[file].type = "idl"
    THEN Ok(files[file].idl)
    ELSE Err("IdlError", file)

\* An Idl after the flipper contract of the tests (new, flip, get); its third
\* instruction declares a nested group of accounts.
flipper ==
    [instructions |->
        <<[name |-> "new", args |-> <<IdlArg("initvalue", IdlType("Bool"))>>,
           accounts |-> <<IdlAccount("dataAccount", TRUE, TRUE), IdlAccount("payer", TRUE, TRUE)>>],
          [name |-> "flip", args |-> <<>>,
           accounts |-> <<IdlAccount("dataAccount", FALSE, TRUE)>>],
          [name |-> "get", args |-> <<>>, accounts |-> <<IdlAccounts>>]>>,
     types |-> custom_types]

\* let idl = idl_from_json(..)?
DoneIdl ==
    /\ pc = "done"
    /\ steps' = Append(steps, "idl")
    /\ LET idl == idl_from_json(fs, opts.idl) IN
       IF idl.tag = "Err"
       THEN /\ result' = Err("Idl", idl)
            /\ pc' = "done_returned"
       ELSE /\ pc' = "program_id"
            /\ UNCHANGED result
    /\ UNCHANGED <<instr, raw_args, fs, i, accounts, signers, new_accounts, generated, data, args>>
    /\ UNCHANGED <<rpc_client, response, target_name, config_file_content>>
    /\ UNCHANGED <<opts, command, stdin, stdout, chain>>

\* let program_id = Pubkey::from_str(&self.opts.program_id)?
DoneProgramId ==
    /\ pc = "program_id"
    /\ steps' = Append(steps, "program_id")
    /\ LET program_id == Pubkey_from_str(opts.program_id) IN
       IF program_id.tag = "Err"
       THEN /\ result' = Err("ProgramId", program_id)
            /\ pc' = "done_returned"
       ELSE /\ pc' = "instruction"
            /\ UNCHANGED result
    /\ UNCHANGED <<instr, raw_args, fs, i, accounts, signers, new_accounts, generated, data, args>>
    /\ UNCHANGED <<rpc_client, response, target_name, config_file_content>>
    /\ UNCHANGED <<opts, command, stdin, stdout, chain>>

\* idl.instructions.iter().find(|i| i.name == self.opts.instruction)
DoneInstruction ==
    /\ pc = "instruction"
    /\ steps' = Append(steps, "instruction")
    /\ LET instructions == idl_from_json(fs, opts.idl).v.instructions
           found == {k \in 1..Len(instructions) : instructions[k].name = opts.instruction}
       IN  IF found = {}
           THEN /\ result' = Err("InstructionNotFound", opts.instruction)
                /\ pc' = "done_returned"
                /\ UNCHANGED instr
           ELSE /\ instr' = instructions[CHOOSE k \in found : \A j \in found : k <= j]
                /\ pc' = "done_call_data"
                /\ UNCHANGED result
    /\ UNCHANGED <<raw_args, fs, i, accounts, signers, new_accounts, generated, data, args>>
    /\ UNCHANGED <<rpc_client, response, target_name, config_file_content>>
    /\ UNCHANGED <<opts, command, stdin, stdout, chain>>

\* construct_instruction_data(&instruction, &self.opts.call_data, ..) is entered.
DoneCallData ==
    /\ pc = "done_call_data"
    /\ steps' = Append(steps, "call_data")
    /\ raw_args' = opts.call_data
    /\ pc' = "call_data"
    /\ UNCHANGED <<instr, fs, i, accounts, signers, new_accounts, generated, data, args, result>>
    /\ UNCHANGED <<rpc_client, response, target_name, config_file_content>>
    /\ UNCHANGED <<opts, command, stdin, stdout, chain>>

\* The `?` on the call data; construct_instruction_accounts(&instruction,
\* &self.opts.accounts) is entered.
DoneAccounts ==
    /\ pc = "returned"
    /\ steps[Len(steps)] = "call_data"
    /\ IF result.tag # "Ok"
       THEN /\ result' = IF result = Panic THEN Panic ELSE Err("CallData", result)
            /\ pc' = "done_returned"
            /\ UNCHANGED <<raw_args, i, steps>>
       ELSE /\ steps' = Append(steps, "accounts")
            /\ raw_args' = opts.accounts
            /\ i' = 0
            /\ result' = Running
            /\ pc' = "accounts"
    /\ UNCHANGED <<instr, fs, accounts, signers, new_accounts, generated, data, args>>
    /\ UNCHANGED <<rpc_client, response, target_name, config_file_content>>
    /\ UNCHANGED <<opts, command, stdin, stdout, chain>>

\* Mutant: when the payer cannot be read, the keypair files written for
\* `new` accounts are removed.
DonePayer_removesNewAccounts ==
    /\ pc = "returned"
    /\ steps[Len(steps)] = "accounts"
    /\ IF result.tag # "Ok"
       THEN /\ result' = IF result = Panic THEN Panic ELSE Err("Accounts", result)
            /\ UNCHANGED steps
       ELSE /\ steps' = Append(steps, "payer")
            /\ LET payer == read_keypair_file(fs, opts.payer) IN
               result' = IF payer.tag = "Err" THEN Err("Payer", payer)
                         ELSE Ok([program_id |-> opts.program_id, instruction |-> instr,
                                  call_data |-> data, accounts |-> accounts,
                                  signers |-> signers, new_accounts |-> new_accounts,
                                  payer |-> payer.v])
    /\ fs' = IF result.tag = "Ok" /\ read_keypair_file(fs, opts.payer).tag = "Err"
             THEN [p \in DOMAIN fs \ {new_accounts[k][2] : k \in 1..Len(new_accounts)} |-> fs[p]]
             ELSE fs
    /\ pc' = "done_returned"
    /\ UNCHANGED <<instr, raw_args, i, accounts, signers, new_accounts, generated, data, args>>
    /\ UNCHANGED <<rpc_client, response, target_name, config_file_content>>
    /\ UNCHANGED <<opts, command, stdin, stdout, chain>>

\* The `?` on the accounts; read_keypair_file(&self.opts.payer)?, and
\* Ok(SolanaTransaction { .. }).
DonePayer ==
    /\ pc = "returned"
    /\ steps[Len(steps)] = "accounts"
    /\ IF result.tag # "Ok"
       THEN /\ result' = IF result = Panic THEN Panic ELSE Err("Accounts", result)
            /\ UNCHANGED steps
       ELSE /\ steps' = Append(steps, "payer")
            /\ LET payer == read_keypair_file(fs, opts.payer) IN
               result' = IF payer.tag = "Err" THEN Err("Payer", payer)
                         ELSE Ok([program_id |-> opts.program_id, instruction |-> instr,
                                  call_data |-> data, accounts |-> accounts,
                                  signers |-> signers, new_accounts |-> new_accounts,
                                  payer |-> payer.v])
    /\ pc' = "done_returned"
    /\ UNCHANGED <<instr, raw_args, fs, i, accounts, signers, new_accounts, generated, data, args>>
    /\ UNCHANGED <<rpc_client, response, target_name, config_file_content>>
    /\ UNCHANGED <<opts, command, stdin, stdout, chain>>

done ==
    \/ DoneIdl
    \/ DoneProgramId
    \/ DoneInstruction
    \/ DoneCallData
    \/ construct_instruction_data
    \/ DoneAccounts
    \/ construct_instruction_accounts
    \/ DonePayer

\* The options a builder is given: an Idl file that is there, is missing or
\* is no Idl; a program id that parses or not; an instruction of the Idl or
\* not; call data and up to two account references; a payer keypair file
\* that is there or not.
SolanaTransactionOpts ==
    [idl : {"flipper.json", "missing.json", "notes.txt"},
     program_id : {"PkA", "zzz"},
     instruction : {"new", "flip", "get", "absent"},
     call_data : {<<>>, <<<<"t", "r", "u", "e">>>>, <<<<"m", "a", "y", "b", "e">>>>},
     accounts : UNION {RawLists({"new", "self", "system", "wallet.json", "zzz"}, n) : n \in 0..2},
     payer : {"id.json", "missing.json"}]

InitDone ==
    /\ opts \in SolanaTransactionOpts
    /\ fs = [p \in DOMAIN InitialFiles \cup {"flipper.json"} |->
                IF p = "flipper.json" THEN IdlFile(flipper) ELSE InitialFiles[p]]
    /\ pc = "done"
    /\ steps = <<>>
    /\ instr = None
    /\ raw_args = <<>>
    /\ i = 0
    /\ accounts = <<>>
    /\ signers = <<>>
    /\ new_accounts = <<>>
    /\ generated = 0
    /\ data = <<>>
    /\ args = <<>>
    /\ result = Running
    /\ rpc_client = None
    /\ response = <<>>
    /\ target_name = <<>>
    /\ config_file_content = None
    /\ command = None
    /\ stdin = None
    /\ stdout = <<>>
    /\ chain = None

SpecDone == InitDone /\ [][done]_vars

(***************************************************************************)
(* The call and instantiate commands of crates/aqd-polkadot                *)
(* (PolkadotCallCommand::handle, PolkadotInstantiateCommand::handle) and   *)
(* prompt_confirm_transaction of crates/aqd-utils.                         *)
(***************************************************************************)
\* Mutant: whatever was read is taken for a confirmation.
prompt_confirm_transaction_anyAnswer(input) ==
    IF input.tag = "Err" THEN Err("IoError", "read_line") ELSE Ok(<<>>)

\* prompt_confirm_transaction, from the line read_line has read (nothing at
\* the end of the input): choice.trim().to_lowercase() is matched.
prompt_confirm_transaction(input) ==
    LET choice == input.v
        IsWhitespace(c) == c \in {" ", "\t", "\n", "\r"}
        kept == {k \in 1..Len(choice) : ~IsWhitespace(choice[k])}
        trimmed ==
            IF kept = {} THEN <<>>
            ELSE SubSeq(choice, CHOOSE k \in kept : \A j \in kept : k <= j,
                                CHOOSE k \in kept : \A j \in kept : j <= k)
        to_lowercase(c) ==
            IF \E k \in 34..59 : Printable[k] = c
            THEN Lowercase[(CHOOSE k \in 34..59 : Printable[k] = c) - 33]
            ELSE c
        lowered == [k \in 1..Len(trimmed) |-> to_lowercase(trimmed[k])]
    IN  IF input.tag = "Err" THEN Err("IoError", "read_line")
        ELSE IF lowered = <<"y">> \/ lowered = <<>> THEN Ok(<<>>)
        ELSE IF lowered = <<"n">> THEN Err("Confirm", "Transaction not submitted")
        ELSE Err("Confirm", "Invalid choice")

\* check_target_match("polkadot", None)?, and exit(1) when it is no match.
HandleTargetMatch ==
    /\ pc = "handle"
    /\ LET target_match == check_target_match(fs, <<"p", "o", "l", "k", "a", "d", "o", "t">>, None) IN
       IF target_match.tag = "Ok" /\ target_match.v
       THEN /\ pc' = "builder"
            /\ UNCHANGED result
       ELSE /\ result' = CASE target_match.tag = "Ok" -> [tag |-> "Exit", code |-> 1]
                           [] target_match.tag = "Err" -> Err("TargetMatch", target_match)
                           [] OTHER -> Panic
            /\ pc' = "returned"
    /\ UNCHANGED <<instr, raw_args, fs, i, accounts, signers, new_accounts, generated, data, args>>
    /\ UNCHANGED <<rpc_client, response, target_name, config_file_content>>
    /\ UNCHANGED <<opts, steps, command, stdin, stdout, chain>>

\* CallCommandBuilder / InstantiateCommandBuilder ... .done().await?, which
\* connects to the node and reads the contract's files, and the branch on
\* the execute flag.
HandleBuilder ==
    /\ pc = "builder"
    /\ \E built \in BOOLEAN :
          IF built
          THEN /\ pc' = IF command.execute THEN "estimate_gas" ELSE "dry_run"
               /\ UNCHANGED result
          ELSE /\ result' = Err("Builder", command.kind)
               /\ pc' = "returned"
    /\ UNCHANGED <<instr, raw_args, fs, i, accounts, signers, new_accounts, generated, data, args>>
    /\ UNCHANGED <<rpc_client, response, target_name, config_file_content>>
    /\ UNCHANGED <<opts, steps, command, stdin, stdout, chain>>

\* execute is unset: call_dry_run / instantiate_dry_run, and the printing of
\* what it answered.
HandleDryRun ==
    /\ pc = "dry_run"
    /\ chain' = [chain EXCEPT !.dry_runs = @ + 1]
    /\ \E answered \in BOOLEAN :
          IF answered
          THEN /\ stdout' = Append(stdout, "dry run result")
               /\ result' = Ok(<<>>)
          ELSE /\ result' = Err("DryRun", command.kind)
               /\ UNCHANGED stdout
    /\ pc' = "returned"
    /\ UNCHANGED <<instr, raw_args, fs, i, accounts, signers, new_accounts, generated, data, args>>
    /\ UNCHANGED <<rpc_client, response, target_name, config_file_content>>
    /\ UNCHANGED <<opts, steps, command, stdin>>

\* execute is set: exec.estimate_gas().await?, which asks the node for a dry
\* run unless both limits were given on the command line.
HandleEstimateGas ==
    /\ pc = "estimate_gas"
    /\ \E limits_given \in BOOLEAN, answered \in BOOLEAN :
          /\ chain' = IF limits_given THEN chain ELSE [chain EXCEPT !.dry_runs = @ + 1]
          /\ IF limits_given \/ answered
             THEN /\ pc' = IF command.skip_confirm THEN "submit" ELSE "confirm"
                  /\ UNCHANGED result
             ELSE /\ result' = Err("EstimateGas", command.kind)
                  /\ pc' = "returned"
    /\ UNCHANGED <<instr, raw_args, fs, i, accounts, signers, new_accounts, generated, data, args>>
    /\ UNCHANGED <<rpc_client, response, target_name, config_file_content>>
    /\ UNCHANGED <<opts, steps, command, stdin, stdout>>

\* skip_confirm is unset: prompt_confirm_transaction(|| { summary })?
HandleConfirm ==
    /\ pc = "confirm"
    /\ stdout' = stdout \o <<"summary", "Are you sure you want to submit this transaction? (Y/n): ">>
    /\ LET confirmed == prompt_confirm_transaction(stdin) IN
       IF confirmed.tag = "Err"
       THEN /\ result' = confirmed
            /\ pc' = "returned"
       ELSE /\ pc' = "submit"
            /\ UNCHANGED result
    /\ UNCHANGED <<instr, raw_args, fs, i, accounts, signers, new_accounts, generated, data, args>>
    /\ UNCHANGED <<rpc_client, response, target_name, config_file_content>>
    /\ UNCHANGED <<opts, steps, command, stdin, chain>>

\* exec.call(Some(gas_limit)) / exec.instantiate(Some(gas_limit)): the
\* extrinsic is sent, and its events are printed when it went through.
HandleSubmit ==
    /\ pc = "submit"
    /\ chain' = [chain EXCEPT !.extrinsics = @ + 1]
    /\ \E included \in BOOLEAN :
          IF included
          THEN /\ stdout' = Append(stdout, "events")
               /\ result' = Ok(<<>>)
          ELSE /\ result' = Err("Extrinsic", command.kind)
               /\ UNCHANGED stdout
    /\ pc' = "returned"
    /\ UNCHANGED <<instr, raw_args, fs, i, accounts, signers, new_accounts, generated, data, args>>
    /\ UNCHANGED <<rpc_client, response, target_name, config_file_content>>
    /\ UNCHANGED <<opts, steps, command, stdin>>

handle ==
    \/ HandleTargetMatch
    \/ HandleBuilder
    \/ HandleDryRun
    \/ HandleEstimateGas
    \/ HandleConfirm
    \/ HandleSubmit

\* A command with its two flags; a directory without a solang.toml, with one
\* for Polkadot, with one for Solana, with one that is no TOML; and what the
\* user types at the prompt: a line, nothing (end of input), or a read error.
InitHandle ==
    /\ command \in [kind : {"call", "instantiate"}, execute : BOOLEAN, skip_confirm : BOOLEAN]
    /\ stdin \in {Ok(line) : line \in {<<"y", "\n">>, <<"Y", "\n">>, <<"\n">>, <<>>, <<"y">>,
                                         <<" ", "y", " ", "\n">>, <<"Y", "\r", "\n">>,
                                         <<" ", "\t", "\n">>, <<"n", "\n">>, <<"N", "\n">>,
                                         <<"y", "e", "s", "\n">>, <<"y", " ", "y", "\n">>,
                                         <<"n", "o", "\n">>, <<"1", "\n">>}}
                 \cup {Err("IoError", "read_line")}
    /\ fs \in {InitialFiles}
              \cup {[p \in DOMAIN InitialFiles \cup {"solang.toml"} |->
                        IF p = "solang.toml" THEN TextFile(content) ELSE InitialFiles[p]] :
                       content \in {WithTarget(<<>>, <<"p", "o", "l", "k", "a", "d", "o", "t">>),
                                    WithTarget(<<>>, <<"s", "o", "l", "a", "n", "a">>),
                                    <<"[", "t", "a", "r", "g", "e", "t", "\n">>}}
    /\ chain = [dry_runs |-> 0, extrinsics |-> 0]
    /\ stdout = <<>>
    /\ pc = "handle"
    /\ opts = None
    /\ steps = <<>>
    /\ instr = None
    /\ raw_args = <<>>
    /\ i = 0
    /\ accounts = <<>>
    /\ signers = <<>>
    /\ new_accounts = <<>>
    /\ generated = 0
    /\ data = <<>>
    /\ args = <<>>
    /\ result = Running
    /\ rpc_client = None
    /\ response = <<>>
    /\ target_name = <<>>
    /\ config_file_content = None

SpecHandle == InitHandle /\ [][handle]_vars

(***************************************************************************)
(* Properties of construct_instruction_data (checked under SpecData).      *)
(***************************************************************************)
Returned == pc = "returned"
Succeeded == Returned /\ result.tag = "Ok"
Failed(kind) == Returned /\ result.tag = "Err" /\ result.kind = kind

\* The conversion of the k-th declared argument, taken on its own.
Converted(k) == get_borsh_token_vector(raw_args[k], instr.args[k].ty, custom_types)

AllConvert ==
    /\ Len(raw_args) >= Len(instr.args)
    /\ \A k \in 1..Len(instr.args) : Converted(k).tag = "Ok"

RECURSIVE TokensUpTo(_)
TokensUpTo(n) == IF n = 0 THEN <<>> ELSE TokensUpTo(n - 1) \o Converted(n).v

\* C1: whenever construct_instruction_data succeeds, the output starts with
\* the 8 bytes discriminator("global", instr.name), a function of the
\* instruction name alone, and an instruction without declared arguments
\* yields exactly those bytes.
C1_DiscriminatorFirst ==
    Succeeded =>
        LET d == discriminator("global", instr.name) IN
        /\ Len(d) = 8
        /\ Len(result.v) >= Len(d)
        /\ SubSeq(result.v, 1, Len(d)) = d
        /\ instr.args = <<>> => result.v = d

C1_Witness ==
    /\ Succeeded
    /\ instr.name = "new"
    /\ Len(instr.args) = 2
    /\ instr.args[1].ty = Defined("Person")
    /\ instr.args[2].ty = IdlType("Bool")
    /\ SubSeq(result.v, 1, 8) = <<135, 44, 205, 198, 25, 1, 72, 188>>
    /\ Len(result.v) > 8

\* C2: the call returns either the complete payload (the discriminator, then
\* the encoding of every declared argument in declared order) or an error that
\* carries no bytes; a conversion that fails at any depth makes it an error.
C2_AllOrNothing ==
    Returned =>
        IF AllConvert
        THEN result = Ok(discriminator("global", instr.name)
                         \o encode_arguments(TokensUpTo(Len(instr.args))))
        ELSE /\ result.tag = "Err"
             /\ DOMAIN result = {"tag", "kind", "about"}

C2_Witness ==
    /\ Failed("VariantNotFound")
    /\ i = 1
    /\ args # <<>>
    /\ data # <<>>
    /\ instr.args[2].ty = Defined("Person")

\* C3 (as claimed): the call succeeds only when the number of raw strings
\* supplied equals the number of declared arguments.
C3_SucceedsOnlyOnEqualCount ==
    Succeeded => Len(raw_args) = Len(instr.args)

(***************************************************************************)
(* Properties of construct_instruction_accounts (checked under             *)
(* SpecAccounts).                                                          *)
(***************************************************************************)
\* The call stopped inside iteration i, on a plain account descriptor whose
\* raw string is s.
StoppedAt(s) ==
    /\ Returned
    /\ result.tag # "Ok"
    /\ i < Len(instr.accounts)
    /\ account.item = "IdlAccount"
    /\ Get(raw_args, i) = Some(s)

\* The positions (1-based, ascending) among the first n descriptors that are
\* signer-flagged, and among the first n raw strings that are `new`.
RECURSIVE SignerPositions(_, _)
SignerPositions(list, n) ==
    IF n = 0 THEN <<>>
    ELSE IF list[n].item = "IdlAccount" /\ list[n].is_signer
         THEN Append(SignerPositions(list, n - 1), n)
         ELSE SignerPositions(list, n - 1)

RECURSIVE NewPositions(_, _)
NewPositions(list, n) ==
    IF n = 0 THEN <<>>
    ELSE IF list[n] = "new"
         THEN Append(NewPositions(list, n - 1), n)
         ELSE NewPositions(list, n - 1)

\* C4 (as claimed): the call succeeds only when the number of raw account
\* strings supplied equals the number of declared account descriptors.
C4_SucceedsOnlyOnEqualCount ==
    Succeeded => Len(raw_args) = Len(instr.accounts)

\* C5: on success the account list has one record per declared descriptor, in
\* declared order, and record k carries descriptor k's isSigner and isMut
\* flags, whatever raw string was supplied at position k.
C5_FlagsFromSchema ==
    Succeeded =>
        /\ Len(result.v.accounts) = Len(instr.accounts)
        /\ \A k \in 1..Len(instr.accounts) :
              /\ result.v.accounts[k].is_signer = instr.accounts[k].is_signer
              /\ result.v.accounts[k].is_writable = instr.accounts[k].is_mut

C5_Witness ==
    /\ Succeeded
    /\ Len(instr.accounts) = 2
    /\ instr.accounts[1].is_signer /\ ~instr.accounts[1].is_mut
    /\ ~instr.accounts[2].is_signer /\ instr.accounts[2].is_mut
    /\ raw_args[1] = "wallet.json"
    /\ raw_args[2] = "new"

\* C6: a signer-flagged descriptor whose raw string is a valid base58 public
\* key and not a readable keypair file makes the call fail with
\* InvalidKeyOrPath naming the account and the string; no call succeeds with
\* such a string at a signer-flagged position.
BarePublicKey(s) ==
    /\ s \notin {"new", "self", "system"}
    /\ Pubkey_from_str(s).tag = "Ok"
    /\ read_keypair_file(fs, s).tag = "Err"

C7_SignersMatchSignerFlags ==
    Succeeded =>
        LET pos == SignerPositions(instr.accounts, Len(instr.accounts)) IN
        /\ Len(result.v.signers) = Len(pos)
        /\ \A j \in 1..Len(pos) :
              pubkey(result.v.signers[j]) = result.v.accounts[pos[j]].pubkey

C7_Witness ==
    /\ Succeeded
    /\ Len(instr.accounts) = 2
    /\ ~instr.accounts[1].is_signer
    /\ instr.accounts[2].is_signer
    /\ raw_args[1] \in {"new", "self", "wallet.json"}
    /\ raw_args[2] = "self"
    /\ Len(result.v.signers) = 1

C9_NewAccountsRecorded ==
    Succeeded =>
        LET n == Len(instr.accounts)
            pos == NewPositions(raw_args, n)
            new == result.v.new_accounts
        IN  /\ Len(new) = Len(pos)
            /\ \A j \in 1..Len(pos) :
                  LET pk == result.v.accounts[pos[j]].pubkey
                      path == instr.accounts[pos[j]].name \o "-" \o pk \o ".json"
                  IN  /\ new[j] = <<pk, path>>
                      /\ path \in DOMAIN fs
                      /\ fs[path].type = "keypair"
                      /\ pubkey(fs[path].keypair) = pk

C9_Witness ==
    /\ Succeeded
    /\ raw_args = <<"new", "PkA", "new">>
    /\ Len(result.v.new_accounts) = 1
    /\ result.v.new_accounts[1][2] = "payer-Pkn1b.json"

\* C10 (as claimed): an instruction that declares a nested account group at
\* any position fails with NestedAccountsUnsupported for every raw list, and
\* no `new` account was minted.
HasNestedGroup == \E k \in 1..Len(instr.accounts) : instr.accounts[k].item = "IdlAccounts"

C10_NestedRejectedFirst ==
    (Returned /\ HasNestedGroup) =>
        /\ result = Err("NestedAccountsUnsupported", <<>>)
        /\ generated = 0
        /\ fs = InitialFiles

(***************************************************************************)
(* Properties of the encoder on one declared argument (checked under       *)
(* SpecEncode).                                                            *)
(***************************************************************************)
\* The calls of get_borsh_token_vector made for the one declared argument.
CallsMade == Calls(raw_args[1], instr.args[1].ty, custom_types)

\* The number of comma-separated substrings of a raw string.
Substrings(str) == Cardinality({k \in 1..Len(str) : str[k] = ","}) + 1

\* The k-th comma-separated substring: what lies between the (k-1)-th and the
\* k-th comma.
Substring(str, k) ==
    LET commas == {m \in 1..Len(str) : str[m] = ","}
        Before(m) == Cardinality({c \in commas : c < m})
        picked == SelectSeq([m \in 1..Len(str) |-> <<str[m], m>>],
                            LAMBDA x : x[1] # "," /\ Before(x[2]) = k - 1)
    IN  [m \in 1..Len(picked) |-> picked[m][1]]

\* The encodings of the first n substrings as elem, one after the other.
RECURSIVE ElementBytes(_, _, _)
ElementBytes(str, elem, n) ==
    IF n = 0 THEN <<>>
    ELSE ElementBytes(str, elem, n - 1)
         \o encode_arguments(get_borsh_token_vector(Substring(str, n), elem, custom_types).v)

ElementsConvert(str, elem) ==
    \A k \in 1..Substrings(str) :
        get_borsh_token_vector(Substring(str, k), elem, custom_types).tag = "Ok"

\* C11: for every fixed array the encoder reaches, at any depth: a number of
\* comma-separated substrings different from the declared size makes the call
\* fail with ArraySizeMismatch and return no bytes; with the declared number of
\* substrings, all of which convert, the array contributes the encodings of
\* its elements in order and nothing else (no length prefix).
C11_FixedArraySize ==
    (Returned /\ raw_args # <<>>) =>
        \A c \in CallsMade :
            c[2].ty = "Array" =>
                LET r == get_borsh_token_vector(c[1], c[2], custom_types) IN
                /\ Substrings(c[1]) # c[2].size =>
                      /\ r = Err("ArraySizeMismatch", c[1])
                      /\ result = r
                /\ (Substrings(c[1]) = c[2].size /\ ElementsConvert(c[1], c[2].elem)) =>
                      /\ r.tag = "Ok"
                      /\ encode_arguments(r.v) = ElementBytes(c[1], c[2].elem, c[2].size)
                      /\ c = <<raw_args[1], instr.args[1].ty>> =>
                            result = Ok(discriminator("global", instr.name)
                                        \o ElementBytes(c[1], c[2].elem, c[2].size))

C11_Witness ==
    /\ Failed("ArraySizeMismatch")
    /\ instr.args[1].ty = Vec(Array(IdlType("U8"), 2))
    /\ raw_args = << <<"1", ",", "2">> >>
    /\ result.about = <<"1">>

\* C12 (as claimed): for every vector the encoder reaches and converts,
\* whatever the element type, the 4-byte little-endian count in front of the
\* encoded elements is the number of comma-separated substrings of the raw
\* string, and the elements follow in the order of the substrings.
C12_VectorCount ==
    (Returned /\ raw_args # <<>>) =>
        \A c \in CallsMade :
            LET r == get_borsh_token_vector(c[1], c[2], custom_types) IN
            (c[2].ty = "Vec" /\ r.tag = "Ok") =>
                encode_arguments(r.v) =
                    <<Substrings(c[1]) % 256, Substrings(c[1]) \div 256, 0, 0>>
                    \o ElementBytes(c[1], c[2].elem, Substrings(c[1]))

\* The calls the encoder reaches whose declared type names a tagged choice,
\* each with the declared variant names.
ChoiceCalls ==
    {c \in CallsMade :
        /\ c[2].ty = "Defined"
        /\ FindType(custom_types, c[2].name) # None
        /\ FindType(custom_types, c[2].name).v.ty.kind = "Enum"}

VariantsOf(c) == FindType(custom_types, c[2].name).v.ty.variants

\* A raw string without the quote characters at its two ends.
RECURSIVE StripSurroundingQuotes(_)
StripSurroundingQuotes(str) ==
    IF str # <<>> /\ Head(str) = "\"" THEN StripSurroundingQuotes(Tail(str))
    ELSE IF str # <<>> /\ str[Len(str)] = "\""
         THEN StripSurroundingQuotes(SubSeq(str, 1, Len(str) - 1))
         ELSE str

\* What the claim says of a tagged choice compared under the name `name`: the
\* first variant equal to it gives one byte, its zero-based index; no equal
\* variant gives VariantNotFound listing the declared names.
ChoiceOutcome(c, name) ==
    LET r == get_borsh_token_vector(c[1], c[2], custom_types)
        variants == VariantsOf(c)
        matching == {k \in 1..Len(variants) : variants[k] = name}
    IN  IF matching # {}
        THEN LET first == CHOOSE k \in matching : \A m \in matching : k <= m IN
             /\ r.tag = "Ok"
             /\ Len(r.v) = 1
             /\ encode_arguments(r.v) = <<first - 1>>
        ELSE /\ r.tag = "Err"
             /\ r.kind = "VariantNotFound"
             /\ r.about[3] = variants
             /\ result = r

\* C13 (as claimed): the raw string with only its surrounding quote
\* characters stripped is compared with the variant names.
C13_SurroundingQuotesStripped ==
    (Returned /\ raw_args # <<>>) =>
        \A c \in ChoiceCalls : ChoiceOutcome(c, StripSurroundingQuotes(c[1]))

\* C13 (amended): the raw string with every double-quote character removed,
\* wherever it stands, is compared with the variant names; the first equal
\* variant gives one byte, its zero-based index, and no payload; no equal
\* variant gives VariantNotFound listing the declared names.
C13_EveryQuoteRemoved ==
    (Returned /\ raw_args # <<>>) =>
        \A c \in ChoiceCalls : ChoiceOutcome(c, SelectSeq(c[1], LAMBDA x : x # "\""))

C13_Witness ==
    /\ Succeeded
    /\ instr.args[1].ty = Defined("Color")
    /\ raw_args = << <<"G", "r", "\"", "e", "e", "n">> >>
    /\ result.v = discriminator("global", instr.name) \o <<1>>

\* The calls the encoder reaches whose declared type names a record and whose
\* text (the content of the file the raw string names, or the raw string) is
\* valid JSON.
RecordText(c) ==
    IF read_to_string(fs, as_path(c[1])).tag = "Ok"
    THEN read_to_string(fs, as_path(c[1])).v ELSE c[1]

RecordCalls ==
    {c \in CallsMade :
        /\ c[2].ty = "Defined"
        /\ FindType(custom_types, c[2].name) # None
        /\ FindType(custom_types, c[2].name).v.ty.kind = "Struct"
        /\ serde_json_from_str(RecordText(c)).tag = "Ok"}

FieldsOf(c) == FindType(custom_types, c[2].name).v.ty.fields

\* The value the JSON text gives the k-th declared field (None if it has no
\* member of that name), and the conversion of that value as the field's type.
FieldValue(c, k) == Value_get(serde_json_from_str(RecordText(c)).v, FieldsOf(c)[k].name)

FieldTokens(c, k) ==
    get_borsh_token_vector(Value_to_string(FieldValue(c, k).v), FieldsOf(c)[k].ty, custom_types)

MissingFields(c) == {k \in 1..Len(FieldsOf(c)) : FieldValue(c, k) = None}

RECURSIVE FieldBytes(_, _)
FieldBytes(c, n) ==
    IF n = 0 THEN <<>> ELSE FieldBytes(c, n - 1) \o encode_arguments(FieldTokens(c, n).v)

\* A record whose declared fields are all present and all convert contributes
\* the encodings of its fields in declared order and nothing else.
FieldsInline(c) ==
    LET r == get_borsh_token_vector(c[1], c[2], custom_types) IN
    (MissingFields(c) = {} /\ \A k \in 1..Len(FieldsOf(c)) : FieldTokens(c, k).tag = "Ok") =>
        /\ r.tag = "Ok"
        /\ encode_arguments(r.v) = FieldBytes(c, Len(FieldsOf(c)))
        /\ c = <<raw_args[1], instr.args[1].ty>> =>
              result = Ok(discriminator("global", instr.name) \o FieldBytes(c, Len(FieldsOf(c))))

\* C14 (as claimed): a record contributes its fields inline in declared order;
\* a JSON object that lacks a declared field makes the call fail with an error
\* naming the first such field in declared order.
C14_MissingFieldNamed ==
    (Returned /\ raw_args # <<>>) =>
        \A c \in RecordCalls :
            /\ FieldsInline(c)
            /\ MissingFields(c) # {} =>
                  LET first == CHOOSE k \in MissingFields(c) : \A m \in MissingFields(c) : k <= m
                  IN  result = Err("FieldNotFound", FieldsOf(c)[first].name)

\* C14 (amended): a record contributes its fields inline in declared order,
\* whatever the order of the keys in the JSON text; if the JSON text lacks a
\* declared field, the call fails and returns no bytes: with an error naming
\* the first such field in declared order when every declared field before it
\* converts, else with the error of the first earlier field that does not.
C14_FieldsInDeclaredOrder ==
    (Returned /\ raw_args # <<>>) =>
        \A c \in RecordCalls :
            /\ FieldsInline(c)
            /\ MissingFields(c) # {} =>
                  LET first == CHOOSE k \in MissingFields(c) : \A m \in MissingFields(c) : k <= m
                      failing == {k \in 1..(first - 1) : FieldTokens(c, k).tag = "Err"}
                  IN  IF failing = {}
                      THEN result = Err("FieldNotFound", FieldsOf(c)[first].name)
                      ELSE result = FieldTokens(c, CHOOSE k \in failing :
                                                       \A m \in failing : k <= m)

C14_Witness ==
    /\ Succeeded
    /\ instr.args[1].ty = Defined("Person")
    /\ raw_args[1][3] = "f"
    /\ result.v = discriminator("global", instr.name)
                  \o <<4, 0, 0, 0, 34, 65, 108, 34, 30, 2>>

\* C15: whenever the encoder reaches a value whose declared type is a float
\* or an optional (as the declared argument, as an element of a vector or of
\* a fixed array, or as a field of a record), the call fails with
\* UnsupportedType, whatever the raw string is.
C15_FloatAndOptionRejected ==
    (Returned /\ raw_args # <<>>) =>
        \A c \in CallsMade :
            c[2].ty \in {"F32", "F64", "Option"} =>
                /\ Failed("UnsupportedType")
                /\ result = get_borsh_token_vector(c[1], c[2], custom_types)

C15_Witness ==
    /\ Failed("UnsupportedType")
    /\ instr.args[1].ty = Defined("Pair")
    /\ <<<<"1">>, IdlType("F32")>> \in CallsMade
    /\ <<<<"5">>, Array(IdlType("U8"), 1)>> \in CallsMade

\* Decimal arithmetic on numbers written as their decimal digits, least
\* significant first, without leading zeros (zero is the empty sequence).
RECURSIVE DecMulAdd(_, _, _)
DecMulAdd(digits, m, carry) ==
    IF digits = <<>>
    THEN IF carry = 0 THEN <<>> ELSE <<carry % 10>> \o DecMulAdd(<<>>, m, carry \div 10)
    ELSE LET v == Head(digits) * m + carry
         IN  <<v % 10>> \o DecMulAdd(Tail(digits), m, v \div 10)

RECURSIVE DecAdd(_, _, _)
DecAdd(a, b, carry) ==
    IF a = <<>> /\ b = <<>> THEN IF carry = 0 THEN <<>> ELSE <<carry>>
    ELSE LET x == IF a = <<>> THEN 0 ELSE Head(a)
             y == IF b = <<>> THEN 0 ELSE Head(b)
         IN  <<(x + y + carry) % 10>>
             \o DecAdd(IF a = <<>> THEN a ELSE Tail(a), IF b = <<>> THEN b ELSE Tail(b),
                       (x + y + carry) \div 10)

\* 2^n = 2^(n mod 8) * 256^(n div 8).  (The test on Len(acc) lets acc be
\* computed at every step.)
RECURSIVE DecTimes256(_, _)
DecTimes256(acc, n) ==
    IF n = 0 \/ Len(acc) < 0 THEN acc ELSE DecTimes256(DecMulAdd(acc, 256, 0), n - 1)

DecPow2(n) == DecTimes256(DecMulAdd(<<1>>, 2 ^ (n % 8), 0), n \div 8)

\* The number that little-endian bytes spell: acc * 256^n + the first n bytes.
RECURSIVE DecHorner(_, _, _)
DecHorner(acc, bytes, n) ==
    IF n = 0 \/ Len(acc) < 0 THEN acc
    ELSE DecHorner(DecMulAdd(acc, 256, bytes[n]), bytes, n - 1)

DecOfBytes(bytes) == DecHorner(<<>>, bytes, Len(bytes))

DecLess(a, b) ==
    \/ Len(a) < Len(b)
    \/ /\ Len(a) = Len(b)
       /\ \E k \in 1..Len(a) : a[k] < b[k] /\ \A m \in (k + 1)..Len(a) : a[m] = b[m]

\* A decimal literal of an integer type: an optional sign (`+`, or `-` for a
\* signed type), then one or more of the digits 0 to 9.
LiteralDigits(str, signed) ==
    IF str # <<>> /\ (str[1] = "+" \/ (signed /\ str[1] = "-")) THEN Tail(str) ELSE str

IsDecimalLiteral(str, signed) ==
    LET digits == LiteralDigits(str, signed) IN
    /\ digits # <<>>
    /\ \A k \in 1..Len(digits) : \E d \in 0..9 : digits[k] = ToString(d)

\* The absolute value of a decimal literal.
RECURSIVE DecTrim(_)
DecTrim(a) == IF a # <<>> /\ a[Len(a)] = 0 THEN DecTrim(SubSeq(a, 1, Len(a) - 1)) ELSE a

DecOfLiteral(str, signed) ==
    LET digits == LiteralDigits(str, signed) IN
    DecTrim([k \in 1..Len(digits) |->
                CHOOSE d \in 0..9 : digits[Len(digits) + 1 - k] = ToString(d)])

\* The integer types of width 8 to 128: whether signed, and the width.
FixedWidthTypes ==
    [U8 |-> <<FALSE, 8>>, U16 |-> <<FALSE, 16>>, U32 |-> <<FALSE, 32>>, U64 |-> <<FALSE, 64>>,
     U128 |-> <<FALSE, 128>>, I8 |-> <<TRUE, 8>>, I16 |-> <<TRUE, 16>>, I32 |-> <<TRUE, 32>>,
     I64 |-> <<TRUE, 64>>, I128 |-> <<TRUE, 128>>]

\* The value of a decimal literal lies in [0, 2^w - 1] for an unsigned type,
\* in [-2^(w-1), 2^(w-1) - 1] for a signed one.
InRange(str, signed, w) ==
    LET abs == DecOfLiteral(str, signed)
        negative == str[1] = "-" /\ abs # <<>>
    IN  IF ~signed THEN DecLess(abs, DecPow2(w))
        ELSE IF negative THEN ~DecLess(DecPow2(w - 1), abs)
        ELSE DecLess(abs, DecPow2(w - 1))

\* w/8 bytes that spell the value in little-endian two's complement: the
\* value itself if it is not negative, 2^w minus its absolute value if it is.
TwosComplement(bytes, str, signed, w) ==
    LET abs == DecOfLiteral(str, signed)
        negative == str[1] = "-" /\ abs # <<>>
    IN  /\ Len(bytes) * 8 = w
        /\ IF negative THEN DecAdd(DecOfBytes(bytes), abs, 0) = DecPow2(w)
           ELSE DecOfBytes(bytes) = abs

\* C16: for every integer type of width 8 to 128 the encoder reaches: a raw
\* string converts if and only if it is a decimal literal whose value lies in
\* the range of the type; it then contributes w/8 bytes, little-endian, in
\* two's complement; any other raw string makes the call fail with a
\* ParseError naming the declared type and the raw string.
C16_IntegerRange ==
    (Returned /\ raw_args # <<>>) =>
        \A c \in CallsMade :
            c[2].ty \in DOMAIN FixedWidthTypes =>
                LET signed == FixedWidthTypes[c[2].ty][1]
                    w == FixedWidthTypes[c[2].ty][2]
                    r == get_borsh_token_vector(c[1], c[2], custom_types)
                IN  IF IsDecimalLiteral(c[1], signed) /\ InRange(c[1], signed, w)
                    THEN /\ r.tag = "Ok"
                         /\ Len(r.v) = 1
                         /\ TwosComplement(encode_arguments(r.v), c[1], signed, w)
                    ELSE /\ r = Err("ParseError",
                                    <<(IF signed THEN "i" ELSE "u") \o ToString(w), c[1]>>)
                         /\ result = r

C16_Witness ==
    /\ Succeeded
    /\ instr.args[1].ty = IdlType("I64")
    /\ raw_args[1][1] = "-"
    /\ Len(raw_args[1]) > 4
    /\ result.v = discriminator("global", instr.name) \o <<0, 0, 0, 0, 0, 0, 0, 128>>

\* The n-th byte of a hexadecimal string: its n-th pair of digits.
HexByte(str, n) == HexValue(str[2 * n - 1]) * 16 + HexValue(str[2 * n])

LengthPrefix(n) == [k \in 1..4 |-> (n \div (256 ^ (k - 1))) % 256]

\* C17: a top-level Bytes or String argument is written as a 4-byte
\* little-endian length followed by as many payload bytes: for Bytes the bytes
\* spelled by the pairs of hexadecimal digits of the raw string, a raw string of
\* odd length or with another character failing with ParseError; for String the
\* bytes of the raw string as they are.
C17_LengthPrefixedPayload ==
    (Returned /\ raw_args # <<>>) =>
        LET raw == raw_args[1]
            ty == instr.args[1].ty
            disc == discriminator("global", instr.name)
        IN  /\ ty = IdlType("String") =>
                   result = Ok(disc \o LengthPrefix(Len(raw)) \o as_bytes(raw))
            /\ ty = IdlType("Bytes") =>
                   IF Len(raw) % 2 = 0 /\ \A k \in 1..Len(raw) : IsHex(raw[k])
                   THEN result = Ok(disc \o LengthPrefix(Len(raw) \div 2)
                                         \o [n \in 1..(Len(raw) \div 2) |-> HexByte(raw, n)])
                   ELSE result = Err("ParseError", <<"Bytes", raw>>)

C17_Witness ==
    /\ Succeeded
    /\ instr.args[1].ty = IdlType("Bytes")
    /\ raw_args = <<<<"1", "2", "3", "4", "5", "6">>>>
    /\ result.v = discriminator("global", instr.name) \o <<3, 0, 0, 0, 18, 52, 86>>
(***************************************************************************)
(* Properties of decode_instruction_return_data (checked under SpecDecode). *)
(***************************************************************************)
\* C18: when the instruction declares no return type, the function makes no
\* request to the node and reads no log line, and what it returns is
\* Ok(None), whatever the node would have answered.
C18_NoReturnTypeIsNoOp ==
    instr.returns = None =>
        /\ rpc_client.requests = 0
        /\ i = 0
        /\ response = <<>>
        /\ Returned => result = Ok(None)

C18_Witness ==
    /\ Returned
    /\ instr.returns = None
    /\ rpc_client.transaction.tag = "Err"
    /\ result = Ok(None)

\* The log lines the loop decodes: those that contain the text.
ReturnLogs ==
    IF rpc_client.transaction.tag = "Ok" /\ rpc_client.transaction.v.meta # None
    THEN SelectSeq(log_messages(rpc_client),
                   LAMBDA log : contains(log, <<"P", "r", "o", "g", "r", "a", "m", " ", "r", "e", "t", "u",
                                      "r", "n">>))
    ELSE <<>>

\* The bytes are fewer than the declared type takes: one for Bool and U8,
\* four for U32, four and as many as they announce for String.
TooShort(bytes, ty) ==
    CASE ty.ty \in {"Bool", "U8"} -> Len(bytes) < 1
      [] ty.ty = "U32" -> Len(bytes) < 4
      [] ty.ty = "String" -> Len(bytes) < 4 \/ Len(bytes) < 4 + bytes[1] + 256 * bytes[2]

\* C20: when the return data of the first `Program return` line is shorter
\* than the declared return type takes, the caller receives an error.
C20_ShortDataIsAnError ==
    (Returned /\ instr.returns # None /\ ReturnLogs # <<>>) =>
        \A decoded \in base64_decode(split_whitespace_last(ReturnLogs[1]).v) :
            (decoded.tag = "Ok" /\ TooShort(decoded.v, instr.returns.v)) => result.tag = "Err"

(***************************************************************************)
(* Properties of check_target_match (checked under SpecTarget).            *)
(***************************************************************************)
\* The target names a configuration gives as the string value of target.name:
\* the one of the [target] table it ends with, and `solana` for the two
\* configurations that write it as a literal string and as a dotted key.
DeclaredTarget(content) ==
    {name \in TargetNames :
        \E k \in 0..Len(content) : content = WithTarget(SubSeq(content, 1, k), name)}
    \cup (IF content \in {<<"[", "t", "a", "r", "g", "e", "t", "]", "\n", "n", "a", "m", "e",
                             " ", "=", " ", "'", "s", "o", "l", "a", "n", "a", "'", "\n">>,
                           <<"t", "a", "r", "g", "e", "t", ".", "n", "a", "m", "e", " ", "=", " ",
                             "\"", "s", "o", "l", "a", "n", "a", "\"", "\n">>}
          THEN {<<"s", "o", "l", "a", "n", "a">>} ELSE {})

\* C19: given the content of a configuration, check_target_match returns
\* Ok(true) exactly when the string the content gives for target.name is the
\* target name it was called with, character for character, and Ok(false)
\* when the content gives another string.
C19_TargetMatch ==
    (Returned /\ config_file_content # None) =>
        LET declared == DeclaredTarget(config_file_content.v) IN
        /\ result = Ok(TRUE) <=> target_name \in declared
        /\ (declared # {} /\ target_name \notin declared) => result = Ok(FALSE)

C19_Witness ==
    /\ Returned
    /\ target_name = <<"s", "o", "l", "a", "n", "a">>
    /\ config_file_content = Some(WithTarget(<<>>, <<"S", "o", "l", "a", "n", "a">>))
    /\ result = Ok(FALSE)

(***************************************************************************)
(* Further properties of construct_instruction_accounts (checked under     *)
(* SpecAccounts).                                                          *)
(***************************************************************************)
\* C21 (as claimed): a call that stops at a position whose raw string is
\* `self`, the default keypair not being obtainable, returns an error to its
\* caller.
C21_SelfFailureIsAnError ==
    StoppedAt("self") => result.tag = "Err"

Keywords == {"new", "self", "system"}

HoldsKeypair(path) == path \in DOMAIN fs /\ fs[path].type = "keypair"

\* C22: a raw string that is no keyword resolves to the public key of the
\* keypair file of that name if there is one, also when the string is a
\* public key itself; to the string parsed as a public key if there is no
\* such file; and stops the call with InvalidKeyOrPath, naming the account
\* and the string, if it is neither.  A keyword resolves as the keyword, the
\* keypair file of its name not being read.
C22_PathBeforeKey ==
    /\ \A k \in 1..Len(accounts) :
          LET s == raw_args[k] IN
          /\ (s \notin Keywords /\ HoldsKeypair(s)) =>
                 accounts[k].pubkey = pubkey(fs[s].keypair)
          /\ (s \notin Keywords /\ ~HoldsKeypair(s)) =>
                 s \in Base58Keys /\ accounts[k].pubkey = s
          /\ s = "system" => accounts[k].pubkey = system_program_id
          /\ s = "self" => accounts[k].pubkey = pubkey(Keypair("self"))
          /\ s = "new" => \E n \in 1..Len(new_accounts) : new_accounts[n][1] = accounts[k].pubkey
          /\ s \in Keywords => accounts[k].pubkey # pubkey(fs[s].keypair)
    /\ \A s \in RawAccountStrings \ Keywords :
          StoppedAt(s) =>
              /\ result = Err("InvalidKeyOrPath", <<account.name, s>>)
              /\ ~HoldsKeypair(s)
              /\ s \notin Base58Keys \/ account.is_signer
    /\ \A s \in RawAccountStrings \ Keywords :
          (Returned /\ i < Len(instr.accounts) /\ account.item = "IdlAccount"
           /\ Get(raw_args, i) = Some(s) /\ ~HoldsKeypair(s) /\ s \notin Base58Keys) =>
              result = Err("InvalidKeyOrPath", <<account.name, s>>)

C22_Witness ==
    /\ Succeeded
    /\ raw_args = <<"PkB", "system">>
    /\ HoldsKeypair("PkB")
    /\ HoldsKeypair("system")
    /\ result.v.accounts[1].pubkey = pubkey(Keypair("other"))
    /\ result.v.accounts[2].pubkey = system_program_id

(***************************************************************************)
(* Further properties of the encoder on one declared argument (checked     *)
(* under SpecEncode).                                                      *)
(***************************************************************************)
\* The calls the encoder reaches for a Person whose JSON text gives all three
\* declared fields.
PersonCalls ==
    {c \in RecordCalls : c[2].name = "Person" /\ MissingFields(c) = {}}

\* The Color a bare name selects (0-based), if any.
VariantIndex(name) ==
    LET variants == FindType(custom_types, "Color").v.ty.variants
    IN  IF \E k \in 1..Len(variants) : variants[k] = name
        THEN Some((CHOOSE k \in 1..Len(variants) : variants[k] = name) - 1) ELSE None

\* C23: a field of a record is converted from the JSON text of its value: a
\* JSON string given to a String field is encoded with its two quotes (length
\* prefix two more than its length, payload 34 .. 34); a JSON number given to
\* a numeric field is converted from its decimal text, while a JSON string
\* given to it fails to parse, quotes included; a JSON string given to a
\* tagged-choice field selects the variant of its bare name.
C23_FieldsAsJsonText ==
    (Returned /\ raw_args # <<>>) =>
        \A c \in PersonCalls :
            LET name == FieldValue(c, 1).v
                age == FieldValue(c, 2).v
                color == FieldValue(c, 3).v
                r == get_borsh_token_vector(c[1], c[2], custom_types)
                age_tokens == get_borsh_token_vector(age.v, IdlType("U8"), custom_types)
            IN  /\ age.j = "String" =>
                       r = Err("ParseError", <<"u8", <<"\"">> \o age.v \o <<"\"">>>>)
                /\ (name.j = "String" /\ age.j = "Number" /\ age_tokens.tag = "Ok"
                    /\ color.j = "String" /\ VariantIndex(color.v) # None) =>
                       /\ r.tag = "Ok"
                       /\ encode_arguments(r.v) =
                              LengthPrefix(Len(name.v) + 2) \o <<34>> \o as_bytes(name.v) \o <<34>>
                              \o encode_arguments(age_tokens.v) \o <<VariantIndex(color.v).v>>

C23_Witness ==
    /\ Succeeded
    /\ instr.args[1].ty = Defined("Person")
    /\ Len(raw_args[1]) >= 10
    /\ raw_args[1][10] = "A"
    /\ result.v = discriminator("global", instr.name)
                  \o <<7, 0, 0, 0, 34, 65, 108, 105, 99, 101, 34, 30, 0>>

\* The calls the encoder reaches whose declared type names a record.
StructCalls ==
    {c \in CallsMade :
        /\ c[2].ty = "Defined"
        /\ FindType(custom_types, c[2].name) # None
        /\ FindType(custom_types, c[2].name).v.ty.kind = "Struct"}

\* The conversion of a JSON text as the record a call names; the text is
\* named in the error if it is not JSON.
FromText(c, text) ==
    IF serde_json_from_str(text).tag = "Ok"
    THEN EncodeFields(serde_json_from_str(text).v, FieldsOf(c), custom_types)
    ELSE Err("ParseError", <<"Struct", text>>)

\* C24: a record is converted from the content of the text file its raw
\* string names, if there is one, whether or not the raw string is JSON
\* itself and whether or not the content is JSON; from the raw string only if
\* there is no such file.
C24_FileBeforeText ==
    (Returned /\ raw_args # <<>>) =>
        \A c \in StructCalls :
            LET path == as_path(c[1])
                r == get_borsh_token_vector(c[1], c[2], custom_types)
            IN  IF path \in DOMAIN fs /\ fs[path].type = "text"
                THEN r = FromText(c, fs[path].text)
                ELSE r = FromText(c, c[1])

C24_Witness ==
    /\ Succeeded
    /\ instr.args[1].ty = Defined("Person")
    /\ raw_args = <<<<"{", "\"", "x", "\"", ":", "1", "}">>>>
    /\ serde_json_from_str(raw_args[1]).tag = "Ok"
    /\ result.v = discriminator("global", instr.name)
                  \o <<4, 0, 0, 0, 34, 66, 111, 34, 31, 2>>

(***************************************************************************)
(* Further properties of check_target_match (checked under SpecTarget).    *)
(***************************************************************************)
\* C26 (as claimed): called without a content, check_target_match returns
\* to its caller in every case, with an error when there is no solang.toml in
\* the directory, when it cannot be read, when it is not TOML and when it
\* gives no string for target.name.
C26_NoFileIsAnError ==
    (Returned /\ config_file_content = None) =>
        /\ result.tag \in {"Ok", "Err"}
        /\ "solang.toml" \notin DOMAIN fs => result.tag = "Err"
        /\ ("solang.toml" \in DOMAIN fs /\ fs["solang.toml"].type # "text") => result.tag = "Err"
        /\ ("solang.toml" \in DOMAIN fs /\ fs["solang.toml"].type = "text"
            /\ DeclaredTarget(fs["solang.toml"].text) = {}) => result.tag = "Err"

(***************************************************************************)
(* Further properties of the encoder on the wide integers and on vectors   *)
(* (checked under SpecEncode).                                             *)
(***************************************************************************)
\* C28: for the two 256-bit integer types every decimal literal, with or
\* without a sign and of any magnitude, converts to a token of that type
\* whose value is the value of the literal; a string that does not convert
\* fails with ParseError naming the type and the string, and is no decimal
\* literal.
C28_NoRangeCheckAt256 ==
    (Returned /\ raw_args # <<>>) =>
        \A c \in CallsMade :
            c[2].ty \in {"U256", "I256"} =>
                LET r == get_borsh_token_vector(c[1], c[2], custom_types)
                    unsigned == c[2].ty = "U256"
                IN  /\ IsDecimalLiteral(c[1], TRUE) =>
                           /\ r.tag = "Ok"
                           /\ Len(r.v) = 1
                           /\ r.v[1].token = (IF unsigned THEN "Uint" ELSE "Int")
                           /\ r.v[1].width = 256
                           /\ DecOfBytes(r.v[1].value.mag) = DecOfLiteral(c[1], TRUE)
                           /\ r.v[1].value.neg = (c[1][1] = "-" /\ DecOfLiteral(c[1], TRUE) # <<>>)
                    /\ r.tag = "Err" =>
                           /\ r = Err("ParseError", <<(IF unsigned THEN "u256" ELSE "i256"), c[1]>>)
                           /\ ~IsDecimalLiteral(c[1], TRUE)

C28_Witness ==
    /\ Returned
    /\ instr.args[1].ty = IdlType("U256")
    /\ raw_args = <<<<"-", "5">>>>
    /\ get_borsh_token_vector(raw_args[1], IdlType("U256"), custom_types)
           = Ok(<<IntToken("Uint", 256, BigInt(TRUE, <<5>>))>>)

\* C30 (as claimed): a vector is never encoded with a count of zero.  The
\* empty raw string is one element, the empty string: it does not convert for
\* a numeric, boolean or address element type, and is a vector of one empty
\* element for String and Bytes.
C30_VectorNeverEmpty ==
    (Returned /\ raw_args # <<>> /\ instr.args[1].ty.ty = "Vec") =>
        LET elem == instr.args[1].ty.elem.ty IN
        /\ Succeeded => SubSeq(result.v, 9, 12) # <<0, 0, 0, 0>>
        /\ (raw_args[1] = <<>> /\ elem \in IntegerTypes \cup {"U256", "I256", "Bool", "PublicKey"}) =>
               result.tag = "Err"
        /\ (raw_args[1] = <<>> /\ elem \in {"String", "Bytes"}) =>
               result = Ok(discriminator("global", instr.name) \o <<1, 0, 0, 0, 0, 0, 0, 0>>)

(***************************************************************************)
(* Further properties of decode_instruction_return_data (checked under     *)
(* SpecDecode).                                                            *)
(***************************************************************************)
\* The bytes the last word of a log line spells, None when it is not base64.
Payload(log) ==
    LET decoded == {d \in base64_decode(split_whitespace_last(log).v) : d.tag = "Ok"}
    IN  IF decoded = {} THEN None ELSE Some((CHOOSE d \in decoded : TRUE).v)

\* Every line carries as many bytes as the type takes.
Complete(logs, ty) ==
    \A k \in 1..Len(logs) :
        Payload(logs[k]) # None /\ ~TooShort(Payload(logs[k]).v, ty)

\* The renderings of the lines, each decoded from offset 0, one after the
\* other without a separator.
RECURSIVE Renderings(_, _)
Renderings(logs, ty) ==
    IF logs = <<>> THEN <<>>
    ELSE LET token == CHOOSE t \in decode_at_offset(Payload(Head(logs)).v, 0, ty, custom_types) :
                          t # Panic
         IN  BorshToken_to_string(token) \o Renderings(Tail(logs), ty)

\* C29: with a declared return type, a call that returns a value returns
\* Some(s), never None; s is the concatenation in log order of the renderings
\* of the `Program return` lines, and the empty string when there is no such
\* line or there are no logs.
C29_ConcatenatedInLogOrder ==
    (Returned /\ instr.returns # None) =>
        /\ result # Ok(None)
        /\ (rpc_client.transaction.tag = "Ok" /\ rpc_client.transaction.v.meta # None
            /\ ReturnLogs = <<>>) => result = Ok(Some(<<>>))
        /\ (result.tag = "Ok" /\ Complete(ReturnLogs, instr.returns.v)) =>
               result = Ok(Some(Renderings(ReturnLogs, instr.returns.v)))

C29_Witness ==
    /\ Returned
    /\ instr.returns = Some(IdlType("U8"))
    /\ Len(ReturnLogs) = 2
    /\ result = Ok(Some(<<"1", "2">>))

(***************************************************************************)
(* Properties of SolanaTransactionBuilder::done (checked under SpecDone).  *)
(***************************************************************************)
DoneSteps == <<"idl", "program_id", "instruction", "call_data", "accounts", "payer">>

DoneReturned == pc = "done_returned"

\* The files that were not there when done was entered.
WrittenFiles == DOMAIN fs \ (DOMAIN InitialFiles \cup {"flipper.json"})

\* What the options say about the first three steps, and about the call data
\* of the three instructions of the Idl.
IdlLoads == opts.idl = "flipper.json"
ProgramIdParses == opts.program_id \in Base58Keys
InstructionFound == opts.instruction \in {"new", "flip", "get"}
CallDataEncodes ==
    opts.instruction = "new" => (opts.call_data # <<>> /\ opts.call_data[1] = <<"t", "r", "u", "e">>)

\* C27: the steps are entered in the fixed order and the step that fails is
\* the last one entered; a keypair file is written only after the Idl was
\* loaded, the program id parsed, the instruction found and the call data
\* encoded; and the files written stay, whatever done returns.
C27_StepsInOrderFilesStay ==
    /\ steps = SubSeq(DoneSteps, 1, Len(steps))
    /\ DoneReturned =>
          /\ ~IdlLoads => steps = <<"idl">>
          /\ (IdlLoads /\ ~ProgramIdParses) => Len(steps) = 2
          /\ (IdlLoads /\ ProgramIdParses /\ ~InstructionFound) => Len(steps) = 3
          /\ (IdlLoads /\ ProgramIdParses /\ InstructionFound /\ ~CallDataEncodes) => Len(steps) = 4
          /\ result.tag = "Ok" <=> (Len(steps) = 6 /\ opts.payer = "id.json")
    /\ WrittenFiles # {} =>
          /\ Len(steps) >= 5
          /\ IdlLoads /\ ProgramIdParses /\ InstructionFound /\ CallDataEncodes
          /\ Len(data) >= 8
    /\ \A p \in DOMAIN InitialFiles : p \in DOMAIN fs /\ fs[p] = InitialFiles[p]
    /\ \A k \in 1..Len(new_accounts) :
          /\ new_accounts[k][2] \in DOMAIN fs
          /\ fs[new_accounts[k][2]].type = "keypair"
          /\ pubkey(fs[new_accounts[k][2]].keypair) = new_accounts[k][1]
    /\ Cardinality(WrittenFiles) = Len(new_accounts)

C27_Witness ==
    /\ DoneReturned
    /\ result.tag = "Err"
    /\ result.kind = "Payer"
    /\ Cardinality(WrittenFiles) = 2

(***************************************************************************)
(* Properties of the Polkadot call and instantiate commands (checked under *)
(* SpecHandle).                                                            *)
(***************************************************************************)
Submitted == chain.extrinsics > 0

PromptShown ==
    \E k \in 1..Len(stdout) :
        stdout[k] = "Are you sure you want to submit this transaction? (Y/n): "

\* The answer typed: what was read, the line end and blanks aside.
Answer ==
    SelectSeq(stdin.v, LAMBDA c : c \notin {" ", "\t", "\n", "\r"})

\* The answer is `y`, `Y` or an empty line.
Confirms == stdin.tag = "Ok" /\ Answer \in {<<"y">>, <<"Y">>, <<>>}

\* C25: a transaction is submitted only with the execute flag set and, unless
\* skip_confirm is set, only after the prompt was shown and answered with y,
\* Y or an empty line; without the execute flag a dry run is all that is
\* made; any other answer makes the command fail and nothing is submitted.
C25_SubmittedOnlyWhenConfirmed ==
    /\ chain.extrinsics <= 1
    /\ Submitted =>
          /\ command.execute
          /\ command.skip_confirm \/ (PromptShown /\ Confirms)
    /\ command.skip_confirm => ~PromptShown
    /\ ~command.execute =>
          /\ ~Submitted
          /\ ~PromptShown
          /\ (Returned /\ result.tag = "Ok") => chain.dry_runs = 1
    /\ (Returned /\ PromptShown /\ ~Confirms) => (result.tag = "Err" /\ ~Submitted)
    /\ (Returned /\ result.tag = "Ok" /\ command.execute) => Submitted

C25_Witness ==
    /\ Returned
    /\ command.execute
    /\ ~command.skip_confirm
    /\ PromptShown
    /\ stdin = Ok(<<"Y", "\n">>)
    /\ Submitted
    /\ result.tag = "Ok"

====
